---- MODULE Spec2Model ----
(***************************************************************************)
(* Favourites service: the request handlers (internal/handlers), the two   *)
(* FavouritesRepository backends (internal/database: the in-memory         *)
(* MockRepository and the PostgresRepository) and the JWT gate             *)
(* (internal/auth), as one state machine.                                  *)
(*                                                                         *)
(* Strings are sequences of one-character strings, so that len() and       *)
(* strings.TrimSpace() are computed and not assumed.  Times are integers   *)
(* read from one non-decreasing clock.  Pointers to FavouriteAsset objects *)
(* are references into a heap, so that the aliasing between a handler's    *)
(* local variable and the MockRepository's map is part of the state.       *)
(***************************************************************************)
EXTENDS Integers, Sequences, FiniteSets, Bags, TLC

VARIABLES
    backend,     \* "mock" | "postgres": the FavouritesRepository behind handlers.Repo
    dom,         \* the inputs requests are drawn from (users, assets, descriptions)
    clock,       \* the last value time.Now() returned
    heap,        \* reference -> models.FavouriteAsset object
    favourites,  \* MockRepository.favourites: userID -> (assetID -> reference)
    rows,        \* the rows of the Postgres table favourites
    frames,      \* bag of handler invocations in flight
    started,     \* number of requests started so far
    resp,        \* what the request that returned last returned
    hist,        \* bag of the operations that returned (kept when dom.record)
    authCfg,     \* auth.AuthConfig of the gate
    gate,        \* what JWTMiddleware did with the last request it saw
    rateCfg,     \* config.RateLimitConfig of the routes
    limiter,     \* the counters of httprate.Limit
    served,      \* number of HTTP requests the routes have been given
    request,     \* the HTTP request the routes were given last
    response,    \* what was written to a response last
    call         \* the call of a function made last, with what it returned

vars == <<backend, dom, clock, heap, favourites, rows, frames, started, resp,
          hist, authCfg, gate, rateCfg, limiter, served, request, response, call>>

storeVars == <<backend, dom, clock, heap, favourites, rows, frames, started,
               resp, hist>>

authVars == <<authCfg, gate>>

httpVars == <<rateCfg, limiter, served, request, response>>

-----------------------------------------------------------------------------
(* Bounds of the model.                                                    *)

MaxInFlight == 2      \* requests being served at the same time
MaxRequests == 4      \* requests started in one behaviour
MaxTime == 2          \* the clock stops advancing here
MaxServed == 2        \* HTTP requests given to the routes in one behaviour

-----------------------------------------------------------------------------
(* Strings.                                                                *)

Rep(c, n) == [i \in 1..n |-> c]

Whitespace == {" ", "\t", "\n", "\r"}

\* Without the whitespace at the start: the longest prefix of whitespace is
\* cut off.
TrimLeft(s) ==
    LET k == CHOOSE n \in 0..Len(s) :
                 /\ \A i \in 1..n : s[i] \in Whitespace
                 /\ n = Len(s) \/ s[n + 1] \notin Whitespace
    IN  SubSeq(s, k + 1, Len(s))

\* Without the whitespace at the end.
TrimRight(s) ==
    LET k == CHOOSE n \in 0..Len(s) :
                 /\ \A i \in (n + 1)..Len(s) : s[i] \in Whitespace
                 /\ n = 0 \/ s[n] \notin Whitespace
    IN  SubSeq(s, 1, k)

TrimSpace(s) == TrimRight(TrimLeft(s))

-----------------------------------------------------------------------------
(* Errors.                                                                 *)

Nil == [kind |-> "nil", Errors |-> <<>>]
ErrNotFound == [kind |-> "ErrNotFound", Errors |-> <<>>]
ErrAlreadyExists == [kind |-> "ErrAlreadyExists", Errors |-> <<>>]
ValidationError(errs) == [kind |-> "ValidationError", Errors |-> errs]

IsValidationError(e) == e.kind = "ValidationError"

-----------------------------------------------------------------------------
(* Validation (handlers.go, second half).                                  *)

maxStringLength == 255

NoMsg == <<>>

requireNonEmpty(field, value) ==
    IF TrimSpace(value) = <<>> THEN <<field, "is required">> ELSE NoMsg

checkMaxLength(field, value, max) ==
    IF Len(value) > max THEN <<field, "exceeds maximum length">> ELSE NoMsg

\* A validate that stops at the first check that fails.
validate_FirstOnly(checks) ==
    LET errs == SelectSeq(checks, LAMBDA msg : msg # NoMsg)
    IN  IF Len(errs) > 0 THEN ValidationError(<<Head(errs)>>) ELSE Nil

validate(checks) ==
    LET errs == SelectSeq(checks, LAMBDA msg : msg # NoMsg)
    IN  IF Len(errs) > 0 THEN ValidationError(errs) ELSE Nil

validateChart(c) ==
    validate(<< requireNonEmpty("id", c.id),
                checkMaxLength("id", c.id, maxStringLength),
                requireNonEmpty("title", c.title),
                checkMaxLength("title", c.title, maxStringLength),
                requireNonEmpty("x_axis_title", c.x_axis_title),
                checkMaxLength("x_axis_title", c.x_axis_title, maxStringLength),
                requireNonEmpty("y_axis_title", c.y_axis_title),
                checkMaxLength("y_axis_title", c.y_axis_title, maxStringLength) >>)

validateInsight(i) ==
    validate(<< requireNonEmpty("id", i.id),
                checkMaxLength("id", i.id, maxStringLength),
                requireNonEmpty("text", i.text),
                checkMaxLength("text", i.text, maxStringLength) >>)

validateDescription(description) ==
    validate(<< requireNonEmpty("description", description),
                checkMaxLength("description", description, maxStringLength) >>)

validGenders == <<"Male", "Female">>
validAgeGroups == <<"18-24", "25-34", "35-44", "45-54", "55+">>
validSocialMediaHours == <<"0-1", "1-3", "3-5", "5+">>

checkInList(field, value, allowed) ==
    IF \E i \in 1..Len(allowed) : value = allowed[i]
    THEN NoMsg
    ELSE <<field, "has invalid value">>

checkNonNegative(field, value) ==
    IF value < 0 THEN <<field, "must not be negative">> ELSE NoMsg

\* Audience lists and the social_media_hours_daily value are TLA+ strings
\* (they are only compared with the allowed values); "" is Go's empty string.
validateAudience(a) ==
    validate(
        << requireNonEmpty("id", a.id),
           checkMaxLength("id", a.id, maxStringLength),
           checkNonNegative("purchases_last_month", a.purchases_last_month) >>
        \o [i \in 1..Len(a.gender) |-> checkInList("gender", a.gender[i], validGenders)]
        \o [i \in 1..Len(a.birth_country) |->
                IF a.birth_country[i] = "" THEN <<"birth_country", "is required">>
                                           ELSE NoMsg]
        \o [i \in 1..Len(a.age_groups) |->
                checkInList("age_groups", a.age_groups[i], validAgeGroups)]
        \o (IF a.social_media_hours_daily # ""
            THEN <<checkInList("social_media_hours_daily",
                               a.social_media_hours_daily, validSocialMediaHours)>>
            ELSE <<>>))

validateAsset(asset) ==
    CASE asset.type = "chart" -> validateChart(asset)
      [] asset.type = "insight" -> validateInsight(asset)
      [] asset.type = "audience" -> validateAudience(asset)
      [] OTHER -> Nil

-----------------------------------------------------------------------------
(* Asset model (package models) and its JSON form.                         *)

GetID(asset) == asset.id
GetType(asset) == asset.type

Chart(id, title, x, y, data) ==
    [type |-> "chart", id |-> id, title |-> title, x_axis_title |-> x,
     y_axis_title |-> y, data |-> data]

Insight(id, text) == [type |-> "insight", id |-> id, text |-> text]

Audience(id, gender, birth_country, age_groups, hours, purchases) ==
    [type |-> "audience", id |-> id, gender |-> gender,
     birth_country |-> birth_country, age_groups |-> age_groups,
     social_media_hours_daily |-> hours, purchases_last_month |-> purchases]

\* json.Marshal of an asset: the struct's fields under their json names.  The
\* variant is not part of the document; it is kept in the asset_type column.
Marshal(asset) == [f \in DOMAIN asset \ {"type"} |-> asset[f]]

\* json.Unmarshal into a struct: a field missing from the document keeps its
\* zero value, a field the struct does not have is ignored.
StrField(doc, f) == IF f \in DOMAIN doc THEN doc[f] ELSE <<>>
MapField(doc, f) == IF f \in DOMAIN doc THEN doc[f] ELSE {}
ListField(doc, f) == IF f \in DOMAIN doc THEN doc[f] ELSE <<>>
TextField(doc, f) == IF f \in DOMAIN doc THEN doc[f] ELSE ""
IntField(doc, f) == IF f \in DOMAIN doc THEN doc[f] ELSE 0

ErrUnknownAssetType == [kind |-> "unknown asset type", Errors |-> <<>>]

NoAsset == [type |-> "none", id |-> <<>>]

\* The switch with a default that falls back to the first variant.
unmarshalAssetData_DefaultChart(assetType, data) ==
    IF assetType = "insight"
    THEN [asset |-> Insight(StrField(data, "id"), StrField(data, "text")), err |-> Nil]
    ELSE IF assetType = "audience"
    THEN [asset |-> Audience(StrField(data, "id"), ListField(data, "gender"),
                             ListField(data, "birth_country"),
                             ListField(data, "age_groups"),
                             TextField(data, "social_media_hours_daily"),
                             IntField(data, "purchases_last_month")),
          err |-> Nil]
    ELSE [asset |-> Chart(StrField(data, "id"), StrField(data, "title"),
                          StrField(data, "x_axis_title"),
                          StrField(data, "y_axis_title"), MapField(data, "data")),
          err |-> Nil]

unmarshalAssetData(assetType, data) ==
    CASE assetType = "chart" ->
            [asset |-> Chart(StrField(data, "id"), StrField(data, "title"),
                             StrField(data, "x_axis_title"),
                             StrField(data, "y_axis_title"), MapField(data, "data")),
             err |-> Nil]
      [] assetType = "insight" ->
            [asset |-> Insight(StrField(data, "id"), StrField(data, "text")),
             err |-> Nil]
      [] assetType = "audience" ->
            [asset |-> Audience(StrField(data, "id"), ListField(data, "gender"),
                                ListField(data, "birth_country"),
                                ListField(data, "age_groups"),
                                TextField(data, "social_media_hours_daily"),
                                IntField(data, "purchases_last_month")),
             err |-> Nil]
      [] OTHER -> [asset |-> NoAsset, err |-> ErrUnknownAssetType]

\* A call of unmarshalAssetData or of a validate function: the stored type
\* tag (unmarshalAssetData only), the document or the asset given, and the
\* asset and the error returned.
Call(fn, tag, arg, asset, err) ==
    [fn |-> fn, tag |-> tag, arg |-> arg, asset |-> asset, err |-> err]

NoCall == Call("none", "", NoAsset, NoAsset, Nil)

\* unmarshalAssetData applied to a data column and an asset_type column.
CallUnmarshalAssetData(assetType, data) ==
    LET u == unmarshalAssetData(assetType, data)
    IN  /\ call' = Call("unmarshalAssetData", assetType, data, u.asset, u.err)
        /\ UNCHANGED <<storeVars, authVars, httpVars>>

\* validateAsset applied to an asset (handlers.go:19).
CallValidateAsset(asset) ==
    /\ call' = Call("validateAsset", "", asset, NoAsset, validateAsset(asset))
    /\ UNCHANGED <<storeVars, authVars, httpVars>>

-----------------------------------------------------------------------------
(* MockRepository (favourite_repository.go).  Every method holds r.mu for  *)
(* its whole body, so each is one atomic step over the map.  The map holds *)
(* pointers: m[userID][assetID] is a reference into the heap.              *)

NilRef == 0

\* A list that ranges over every user's map.
MockGetUserFavouritesFromDB_AllUsers(m, userID) ==
    UNION {{m[u][a] : a \in DOMAIN m[u]} : u \in DOMAIN m}

MockGetUserFavouritesFromDB(m, userID) ==
    IF userID \notin DOMAIN m THEN {}
    ELSE {m[userID][a] : a \in DOMAIN m[userID]}

MockGetFavouriteFromDB(m, userID, assetID) ==
    IF userID \notin DOMAIN m THEN [ref |-> NilRef, err |-> ErrNotFound]
    ELSE IF assetID \notin DOMAIN m[userID] THEN [ref |-> NilRef, err |-> ErrNotFound]
    ELSE [ref |-> m[userID][assetID], err |-> Nil]

Put(f, k, v) == [x \in DOMAIN f \cup {k} |-> IF x = k THEN v ELSE f[x]]
Drop(f, k) == [x \in DOMAIN f \ {k} |-> f[x]]
EmptyMap == [x \in {} |-> NilRef]

MockAddFavouriteInDB(m, h, ref) ==
    LET fav == h[ref]
        m1 == IF fav.UserID \notin DOMAIN m THEN Put(m, fav.UserID, EmptyMap) ELSE m
    IN  IF fav.ID \in DOMAIN m1[fav.UserID]
        THEN [m |-> m1, err |-> ErrAlreadyExists]
        ELSE [m |-> Put(m1, fav.UserID, Put(m1[fav.UserID], fav.ID, ref)), err |-> Nil]

MockUpdateFavouriteInDB(m, h, ref) ==
    LET fav == h[ref]
    IN  IF fav.UserID \notin DOMAIN m THEN [m |-> m, err |-> ErrNotFound]
        ELSE IF fav.ID \notin DOMAIN m[fav.UserID] THEN [m |-> m, err |-> ErrNotFound]
        ELSE [m |-> Put(m, fav.UserID, Put(m[fav.UserID], fav.ID, ref)), err |-> Nil]

MockDeleteFavouriteFromDB(m, userID, assetID) ==
    IF userID \notin DOMAIN m THEN [m |-> m, err |-> ErrNotFound]
    ELSE IF assetID \notin DOMAIN m[userID] THEN [m |-> m, err |-> ErrNotFound]
    ELSE [m |-> Put(m, userID, Drop(m[userID], assetID)), err |-> Nil]

-----------------------------------------------------------------------------
(* PostgresRepository (favourites_postgres.go) over the table of           *)
(* postgres.go.  Each method issues one SQL statement, which the database  *)
(* executes atomically.  Driver and connection failures are not modelled.  *)

Row(fav) ==
    [id |-> fav.ID, user_id |-> fav.UserID, asset_type |-> fav.AssetType,
     description |-> fav.Description, data |-> Marshal(fav.Data),
     created_at |-> fav.CreatedAt, updated_at |-> fav.UpdatedAt]

Matching(table, userID, assetID) ==
    {r \in table : r.user_id = userID /\ r.id = assetID}

\* A table without the primary key: no INSERT is refused.
UniqueViolation_NoPrimaryKey(table, row) == FALSE

\* PRIMARY KEY (user_id, id): an INSERT of a key the table holds fails with
\* 23505 and inserts nothing.
UniqueViolation(table, row) == Matching(table, row.user_id, row.id) # {}

scanFavourite(row) ==
    LET u == unmarshalAssetData(row.asset_type, row.data)
    IN  [fav |-> [ID |-> row.id, UserID |-> row.user_id, AssetType |-> row.asset_type,
                  Description |-> row.description, CreatedAt |-> row.created_at,
                  UpdatedAt |-> row.updated_at, Data |-> u.asset],
         err |-> u.err]

PostgresGetFavouriteFromDB(table, userID, assetID) ==
    LET found == Matching(table, userID, assetID)
    IN  IF found = {} THEN [fav |-> {}, err |-> ErrNotFound]
        ELSE LET s == scanFavourite(CHOOSE r \in found : TRUE)
             IN  [fav |-> {s.fav}, err |-> s.err]

PostgresAddFavouriteInDB(table, fav) ==
    IF UniqueViolation(table, Row(fav))
    THEN [rows |-> table, err |-> ErrAlreadyExists]
    ELSE [rows |-> table \cup {Row(fav)}, err |-> Nil]

PostgresUpdateFavouriteInDB(table, fav) ==
    LET hit == Matching(table, fav.UserID, fav.ID)
    IN  [rows |-> (table \ hit) \cup
                    {[r EXCEPT !.description = fav.Description,
                               !.data = Marshal(fav.Data),
                               !.updated_at = fav.UpdatedAt] : r \in hit},
         err |-> IF Cardinality(hit) = 0 THEN ErrNotFound ELSE Nil]

\* DELETE ... WHERE id = $1, without the user_id.
PostgresDeleteFavouriteFromDB_AnyUser(table, userID, assetID) ==
    LET hit == {r \in table : r.id = assetID}
    IN  [rows |-> table \ hit,
         err |-> IF Cardinality(hit) = 0 THEN ErrNotFound ELSE Nil]

PostgresDeleteFavouriteFromDB(table, userID, assetID) ==
    LET hit == Matching(table, userID, assetID)
    IN  [rows |-> table \ hit,
         err |-> IF Cardinality(hit) = 0 THEN ErrNotFound ELSE Nil]

-----------------------------------------------------------------------------
(* The heap of FavouriteAsset objects.                                     *)

\* A new object gets the smallest reference not in use.
Alloc(h) ==
    CHOOSE r \in 1..(Cardinality(DOMAIN h) + 1) :
        r \notin DOMAIN h /\ \A q \in 1..(r - 1) : q \in DOMAIN h

MapRefs(m) == UNION {{m[u][a] : a \in DOMAIN m[u]} : u \in DOMAIN m}
FrameRefs(fr) == {f.favourite : f \in BagToSet(fr)} \ {NilRef}

\* Garbage collection: an object nothing points to is gone.
Collect(h, m, fr) == [r \in DOMAIN h \cap (MapRefs(m) \cup FrameRefs(fr)) |-> h[r]]

-----------------------------------------------------------------------------
(* handlers.Repo: the FavouritesRepository the handlers call, dispatched   *)
(* on the backend.  Each yields the repository's state after the call.     *)

GetFavouriteFromDB(userID, assetID) ==
    IF backend = "mock"
    THEN LET g == MockGetFavouriteFromDB(favourites, userID, assetID)
         IN  [ref |-> g.ref, heap |-> heap, err |-> g.err]
    ELSE LET g == PostgresGetFavouriteFromDB(rows, userID, assetID)
             ref == Alloc(heap)
         IN  IF g.err # Nil THEN [ref |-> NilRef, heap |-> heap, err |-> g.err]
             ELSE [ref |-> ref, heap |-> Put(heap, ref, CHOOSE v \in g.fav : TRUE),
                   err |-> Nil]

AddFavouriteInDB(ref) ==
    IF backend = "mock"
    THEN LET r == MockAddFavouriteInDB(favourites, heap, ref)
         IN  [m |-> r.m, rows |-> rows, err |-> r.err]
    ELSE LET r == PostgresAddFavouriteInDB(rows, heap[ref])
         IN  [m |-> favourites, rows |-> r.rows, err |-> r.err]

UpdateFavouriteInDB(ref) ==
    IF backend = "mock"
    THEN LET r == MockUpdateFavouriteInDB(favourites, heap, ref)
         IN  [m |-> r.m, rows |-> rows, err |-> r.err]
    ELSE LET r == PostgresUpdateFavouriteInDB(rows, heap[ref])
         IN  [m |-> favourites, rows |-> r.rows, err |-> r.err]

DeleteFavouriteFromDB(userID, assetID) ==
    IF backend = "mock"
    THEN LET r == MockDeleteFavouriteFromDB(favourites, userID, assetID)
         IN  [m |-> r.m, rows |-> rows, err |-> r.err]
    ELSE LET r == PostgresDeleteFavouriteFromDB(rows, userID, assetID)
         IN  [m |-> favourites, rows |-> r.rows, err |-> r.err]

\* The records a list may return, as values.  The mock ranges over a Go map
\* (any order); Postgres returns ORDER BY created_at DESC (ties in any order).
Perms(S) ==
    {p \in [1..Cardinality(S) -> S] : \A i, j \in 1..Cardinality(S) : i # j => p[i] # p[j]}

GetUserFavouritesFromDB(userID) ==
    IF backend = "mock"
    THEN LET refs == MockGetUserFavouritesFromDB(favourites, userID)
         IN  {[i \in 1..Cardinality(refs) |-> heap[p[i]]] : p \in Perms(refs)}
    ELSE LET found == {r \in rows : r.user_id = userID}
         IN  {[i \in 1..Cardinality(found) |-> scanFavourite(p[i]).fav] :
                p \in {q \in Perms(found) :
                          \A i, j \in 1..Cardinality(found) :
                             i < j => q[i].created_at >= q[j].created_at}}

-----------------------------------------------------------------------------
(* Inputs.                                                                 *)

c1 == <<"c", "1">>
ChartC1 == Chart(c1, <<"T">>, <<"X">>, <<"Y">>, {})
InsightC1 == Insight(c1, <<"t">>)
ChartNoTitle == Chart(c1, <<>>, <<"X">>, <<"Y">>, {})

DescEmpty == <<>>
DescBlank == <<" ", " ">>
DescA == <<"a">>
DescB == <<"b">>
DescLong == Rep("d", maxStringLength + 1)

\* Two users sharing one asset identifier, valid and invalid inputs.
DomFull ==
    [users |-> {"alice", "bob"},
     assets |-> {ChartC1, ChartNoTitle},
     assetIDs |-> {c1},
     createDescs |-> {DescEmpty, DescLong},
     updateDescs |-> {DescA, DescBlank},
     record |-> FALSE,
     maxRequests |-> MaxRequests,
     maxServed |-> MaxServed]

\* One composite key, valid inputs, two asset variants; the history is kept.
DomRace ==
    [users |-> {"alice"},
     assets |-> {ChartC1, InsightC1},
     assetIDs |-> {c1},
     createDescs |-> {DescEmpty},
     updateDescs |-> {DescA, DescB},
     record |-> TRUE,
     maxRequests |-> MaxRequests,
     maxServed |-> MaxServed]

\* One user, two asset identifiers, valid inputs.
c2 == <<"c", "2">>
ChartC2 == Chart(c2, <<"T">>, <<"X">>, <<"Y">>, {})

\* Two users sharing one asset identifier, as the routes are given them.
DomHTTP ==
    [users |-> {"alice", "bob"},
     assets |-> {ChartC1, ChartNoTitle},
     assetIDs |-> {c1},
     createDescs |-> {DescEmpty},
     updateDescs |-> {DescA, DescBlank},
     record |-> FALSE,
     maxRequests |-> MaxRequests,
     maxServed |-> MaxServed]

DomList ==
    [users |-> {"alice"},
     assets |-> {ChartC1, ChartC2},
     assetIDs |-> {c1, c2},
     createDescs |-> {DescEmpty},
     updateDescs |-> {DescA},
     record |-> FALSE,
     maxRequests |-> MaxRequests,
     maxServed |-> MaxServed]

\* Assets of the three variants, each field with its zero value and with
\* another.
Charts ==
    {Chart(c1, title, x, y, data) :
        title \in {<<>>, <<"T">>}, x \in {<<>>, <<"X">>}, y \in {<<>>, <<"Y">>},
        data \in {{}, {<<"Jan", 1>>}}}

Insights == {Insight(c1, text) : text \in {<<>>, <<"t">>}}

Audiences ==
    {Audience(c1, gender, birth_country, age_groups, hours, purchases) :
        gender \in {<<>>, <<"Male">>}, birth_country \in {<<>>, <<"GR">>},
        age_groups \in {<<>>, <<"25-34">>}, hours \in {"", "1-3"},
        purchases \in {0, 2}}

DomCodec ==
    [users |-> {"alice"},
     assets |-> Charts \cup Insights \cup Audiences,
     assetIDs |-> {c1},
     createDescs |-> {DescEmpty},
     updateDescs |-> {DescA},
     record |-> FALSE,
     maxRequests |-> MaxRequests,
     maxServed |-> MaxServed]

\* Charts and insights whose text fields are empty, blank, short, of the
\* greatest length allowed, one longer, and blank and too long at once.
FieldValues ==
    {<<>>, <<" ">>, <<"v">>, Rep("v", maxStringLength), Rep("v", maxStringLength + 1),
     Rep(" ", maxStringLength + 1)}

DomValidate ==
    [users |-> {"alice"},
     assets |-> {Chart(id, title, x, y, {}) : id, title, x, y \in FieldValues}
                \cup {Insight(id, text) : id, text \in FieldValues},
     assetIDs |-> {c1},
     createDescs |-> {DescEmpty},
     updateDescs |-> {DescA},
     record |-> FALSE,
     maxRequests |-> MaxRequests,
     maxServed |-> MaxServed]

\* The asset_type column as this program writes it, and as it never does.
AssetTypes == {"chart", "insight", "audience"}
UnknownAssetTypes == {"", "video", "Chart"}

\* One composite key, every kind of description on create and on update.
DomDesc ==
    [users |-> {"alice"},
     assets |-> {ChartC1},
     assetIDs |-> {c1},
     createDescs |-> {DescEmpty, DescBlank, DescA, DescLong},
     updateDescs |-> {DescEmpty, DescBlank, DescB, DescLong},
     record |-> FALSE,
     maxRequests |-> MaxRequests,
     maxServed |-> MaxServed]

-----------------------------------------------------------------------------
(* Handlers (handlers.go, first half).  A frame is one invocation between  *)
(* two of its accesses to shared state (the clock, the heap, the store).   *)

\* wrote is an observation, not program state: whether a step of the invocation
\* has changed a stored record so far.
Frame(op, pc, userID, assetID, asset, description, favourite, createdAt) ==
    [op |-> op, pc |-> pc, userID |-> userID, assetID |-> assetID,
     asset |-> asset, description |-> description, favourite |-> favourite,
     createdAt |-> createdAt, wrote |-> FALSE]

\* What an invocation returned.  t1 and t2 are the clock values it read
\* (0: none); list is the result of GetUserFavourites.
Outcome(op, userID, assetID, asset, description, err, t1, t2, list) ==
    [op |-> op, userID |-> userID, assetID |-> assetID, asset |-> asset,
     description |-> description, err |-> err, t1 |-> t1, t2 |-> t2,
     list |-> list]

NoResp == Outcome("none", "", <<>>, NoAsset, <<>>, Nil, 0, 0, <<>>)

Return(o) ==
    /\ resp' = o
    /\ hist' = IF dom.record THEN hist (+) SetToBag({o}) ELSE hist

CanStart == started < dom.maxRequests /\ BagCardinality(frames) < MaxInFlight

\* The records the repository holds, given the heap: the objects the
\* MockRepository's map points to, or the rows of the table.
Stored(h) ==
    IF backend = "mock"
    THEN [u \in DOMAIN favourites |-> [a \in DOMAIN favourites[u] |-> h[favourites[u][a]]]]
    ELSE rows

InFrames(op, pc) == {f \in BagToSet(frames) : f.op = op /\ f.pc = pc}

Step(f, g) == (frames (-) SetToBag({f})) (+) SetToBag({g})

\* A create that validates the description as an update does.
AddFavourite_ValidateDescription(userID, asset, description) ==
    /\ CanStart
    /\ started' = started + 1
    /\ LET err == IF validateAsset(asset) # Nil THEN validateAsset(asset)
                  ELSE validateDescription(description)
       IN  IF err # Nil
           THEN /\ Return(Outcome("AddFavourite", userID, GetID(asset), asset,
                                  description, err, 0, 0, <<>>))
                /\ UNCHANGED <<clock, frames>>
           ELSE /\ \E t \in clock..MaxTime : clock' = t
                /\ frames' = frames (+) SetToBag({
                       Frame("AddFavourite", "UpdatedAt", userID, GetID(asset), asset,
                             description, NilRef, clock')})
                /\ UNCHANGED <<resp, hist>>
    /\ UNCHANGED <<backend, dom, heap, favourites, rows, authVars, call>>

\* handlers.go:18-31: validateAsset, then the struct literal up to
\* CreatedAt: time.Now().
AddFavourite(userID, asset, description) ==
    /\ CanStart
    /\ started' = started + 1
    /\ LET err == validateAsset(asset)
       IN  IF err # Nil
           THEN /\ Return(Outcome("AddFavourite", userID, GetID(asset), asset,
                                  description, err, 0, 0, <<>>))
                /\ UNCHANGED <<clock, frames>>
           ELSE /\ \E t \in clock..MaxTime : clock' = t
                /\ frames' = frames (+) SetToBag({
                       Frame("AddFavourite", "UpdatedAt", userID, GetID(asset), asset,
                             description, NilRef, clock')})
                /\ UNCHANGED <<resp, hist>>
    /\ UNCHANGED <<backend, dom, heap, favourites, rows, authVars, call>>

\* handlers.go:23-31: UpdatedAt: time.Now() completes the new object.
AddFavourite_UpdatedAt(f) ==
    /\ f \in InFrames("AddFavourite", "UpdatedAt")
    /\ \E t \in clock..MaxTime : clock' = t
    /\ LET ref == Alloc(heap)
       IN  /\ heap' = Put(heap, ref,
                         [ID |-> GetID(f.asset), UserID |-> f.userID,
                          AssetType |-> GetType(f.asset),
                          Description |-> f.description, CreatedAt |-> f.createdAt,
                          UpdatedAt |-> clock', Data |-> f.asset])
           /\ frames' = Step(f, [f EXCEPT !.pc = "AddFavouriteInDB", !.favourite = ref])
    /\ UNCHANGED <<backend, dom, favourites, rows, started, resp, hist, authVars, call>>

\* handlers.go:38: return Repo.AddFavouriteInDB(ctx, favourite).
AddFavourite_AddFavouriteInDB(f) ==
    /\ f \in InFrames("AddFavourite", "AddFavouriteInDB")
    /\ LET r == AddFavouriteInDB(f.favourite) IN
        /\ favourites' = r.m
        /\ rows' = r.rows
        /\ frames' = frames (-) SetToBag({f})
        /\ heap' = Collect(heap, favourites', frames')
        /\ Return(Outcome("AddFavourite", f.userID, f.assetID, f.asset, f.description,
                          r.err, heap[f.favourite].CreatedAt,
                          heap[f.favourite].UpdatedAt, <<>>))
        /\ UNCHANGED <<backend, dom, clock, started, authVars, call>>

\* An update that looks the key up before it validates the description.
UpdateDescription_LookupFirst(userID, assetID, description) ==
    /\ CanStart
    /\ started' = started + 1
    /\ LET verr == validateDescription(description)
           g == GetFavouriteFromDB(userID, assetID)
       IN  IF g.err # Nil
           THEN /\ Return(Outcome("UpdateDescription", userID, assetID, NoAsset,
                                  description, g.err, 0, 0, <<>>))
                /\ UNCHANGED <<heap, frames>>
           ELSE IF verr # Nil
           THEN /\ Return(Outcome("UpdateDescription", userID, assetID, NoAsset,
                                  description, verr, 0, 0, <<>>))
                /\ UNCHANGED <<heap, frames>>
           ELSE /\ heap' = g.heap
                /\ frames' = frames (+) SetToBag({
                       Frame("UpdateDescription", "Description", userID, assetID,
                             NoAsset, description, g.ref, 0)})
                /\ UNCHANGED <<resp, hist>>
    /\ UNCHANGED <<backend, dom, clock, favourites, rows, authVars, call>>

\* handlers.go:42-49: validateDescription, then Repo.GetFavouriteFromDB.
UpdateDescription(userID, assetID, description) ==
    /\ CanStart
    /\ started' = started + 1
    /\ LET verr == validateDescription(description)
           g == GetFavouriteFromDB(userID, assetID)
       IN  IF verr # Nil
           THEN /\ Return(Outcome("UpdateDescription", userID, assetID, NoAsset,
                                  description, verr, 0, 0, <<>>))
                /\ UNCHANGED <<heap, frames>>
           ELSE IF g.err # Nil
           THEN /\ Return(Outcome("UpdateDescription", userID, assetID, NoAsset,
                                  description, g.err, 0, 0, <<>>))
                /\ UNCHANGED <<heap, frames>>
           ELSE /\ heap' = g.heap
                /\ frames' = frames (+) SetToBag({
                       Frame("UpdateDescription", "Description", userID, assetID,
                             NoAsset, description, g.ref, 0)})
                /\ UNCHANGED <<resp, hist>>
    /\ UNCHANGED <<backend, dom, clock, favourites, rows, authVars, call>>

\* handlers.go:51: favourite.Description = description.
UpdateDescription_Description(f) ==
    /\ f \in InFrames("UpdateDescription", "Description")
    /\ heap' = [heap EXCEPT ![f.favourite].Description = f.description]
    /\ frames' = Step(f, [f EXCEPT !.pc = "UpdatedAt",
                                   !.wrote = @ \/ Stored(heap') # Stored(heap)])
    /\ UNCHANGED <<backend, dom, clock, favourites, rows, started, resp, hist, authVars, call>>

\* handlers.go:52: favourite.UpdatedAt = time.Now().
UpdateDescription_UpdatedAt(f) ==
    /\ f \in InFrames("UpdateDescription", "UpdatedAt")
    /\ \E t \in clock..MaxTime : clock' = t
    /\ heap' = [heap EXCEPT ![f.favourite].UpdatedAt = clock']
    /\ frames' = Step(f, [f EXCEPT !.pc = "UpdateFavouriteInDB",
                                   !.wrote = @ \/ Stored(heap') # Stored(heap)])
    /\ UNCHANGED <<backend, dom, favourites, rows, started, resp, hist, authVars, call>>

\* handlers.go:54: return Repo.UpdateFavouriteInDB(favourite).
UpdateDescription_UpdateFavouriteInDB(f) ==
    /\ f \in InFrames("UpdateDescription", "UpdateFavouriteInDB")
    /\ LET r == UpdateFavouriteInDB(f.favourite) IN
        /\ favourites' = r.m
        /\ rows' = r.rows
        /\ frames' = frames (-) SetToBag({f})
        /\ heap' = Collect(heap, favourites', frames')
        /\ Return(Outcome("UpdateDescription", f.userID, f.assetID, NoAsset,
                          f.description, r.err, 0, heap[f.favourite].UpdatedAt, <<>>))
        /\ UNCHANGED <<backend, dom, clock, started, authVars, call>>

\* A delete that reports success and removes nothing.
RemoveFavourite_KeepsRecord(userID, assetID) ==
    /\ CanStart
    /\ started' = started + 1
    /\ Return(Outcome("RemoveFavourite", userID, assetID, NoAsset, <<>>, Nil, 0, 0, <<>>))
    /\ UNCHANGED <<backend, dom, clock, heap, favourites, rows, frames, authVars, call>>

\* handlers.go:57-59.
RemoveFavourite(userID, assetID) ==
    /\ CanStart
    /\ started' = started + 1
    /\ LET r == DeleteFavouriteFromDB(userID, assetID)
       IN  /\ favourites' = r.m
           /\ rows' = r.rows
           /\ heap' = Collect(heap, favourites', frames)
           /\ Return(Outcome("RemoveFavourite", userID, assetID, NoAsset, <<>>,
                             r.err, 0, 0, <<>>))
    /\ UNCHANGED <<backend, dom, clock, frames, authVars, call>>

\* handlers.go:14-16.
GetUserFavourites(userID) ==
    /\ CanStart
    /\ started' = started + 1
    /\ \E list \in GetUserFavouritesFromDB(userID) :
          Return(Outcome("GetUserFavourites", userID, <<>>, NoAsset, <<>>, Nil, 0, 0,
                         list))
    /\ UNCHANGED <<backend, dom, clock, heap, favourites, rows, frames, authVars, call>>

-----------------------------------------------------------------------------
(* The JWT gate (auth.go).  A request carries its Authorization header as  *)
(* the text before the first space (scheme), whether there is a space, and *)
(* the text after it, which is a token.  A token is what the jwt library   *)
(* decodes it to: whether its three segments decode at all, the alg of its *)
(* header, the key its signature was made with, and its exp, nbf and sub   *)
(* claims (exp 0: no exp claim; nbf 0: no nbf claim).                      *)

AuthConfig(Secret, AllowUnsignedTokens) ==
    [Secret |-> Secret, AllowUnsignedTokens |-> AllowUnsignedTokens]

NoAuthConfig == AuthConfig("", FALSE)

Token(wellFormed, alg, key, exp, nbf, sub) ==
    [wellFormed |-> wellFormed, alg |-> alg, key |-> key, exp |-> exp, nbf |-> nbf,
     sub |-> sub]

SubAbsent == [kind |-> "absent", value |-> ""]
SubString(v) == [kind |-> "string", value |-> v]
SubNumber == [kind |-> "number", value |-> ""]

NoToken == Token(FALSE, "", "", 0, 0, SubAbsent)

Request(scheme, space, token) == [scheme |-> scheme, space |-> space, token |-> token]

NoRequest == Request(<<>>, FALSE, NoToken)

UpperCase == <<"A", "B", "C", "D", "E", "F", "G", "H", "I", "J", "K", "L", "M",
               "N", "O", "P", "Q", "R", "S", "T", "U", "V", "W", "X", "Y", "Z">>
LowerCase == <<"a", "b", "c", "d", "e", "f", "g", "h", "i", "j", "k", "l", "m",
               "n", "o", "p", "q", "r", "s", "t", "u", "v", "w", "x", "y", "z">>

ToLower(c) ==
    IF \E i \in 1..26 : UpperCase[i] = c
    THEN LowerCase[CHOOSE i \in 1..26 : UpperCase[i] = c]
    ELSE c

\* strings.EqualFold on the letters of the alphabet.
EqualFold(s, t) ==
    /\ Len(s) = Len(t)
    /\ \A i \in 1..Len(s) : ToLower(s[i]) = ToLower(t[i])

Bearer == <<"B", "e", "a", "r", "e", "r">>

\* auth.go:75-85.  strings.SplitN(auth, " ", 2) has two parts when auth has a
\* space.
extractBearerToken(r) ==
    IF r.scheme = <<>> /\ ~r.space THEN [token |-> NoToken, ok |-> FALSE]
    ELSE IF ~r.space \/ ~EqualFold(r.scheme, Bearer) THEN [token |-> NoToken, ok |-> FALSE]
    ELSE [token |-> r.token, ok |-> TRUE]

\* The signing methods the jwt library knows.
SigningMethods == {"none", "HS256", "HS384", "HS512"}

\* jwt.Parser.ParseUnverified: the segments decode and alg names a method.
ParseUnverified(token) == token.wellFormed /\ token.alg \in SigningMethods

\* jwt.Parse without WithValidMethods: any signing method whose signature
\* verifies under the key.
Parse_AnyMethod(token, key, now) ==
    /\ ParseUnverified(token)
    /\ token.alg # "none"
    /\ token.key = key
    /\ token.exp = 0 \/ now < token.exp
    /\ token.nbf = 0 \/ now >= token.nbf

\* jwt.Parse with WithValidMethods(HS256): the method is allowed, the
\* signature verifies under the key, and the registered claims validate: the
\* token has not expired (exp) and is not used before its time (nbf).
Parse(token, key, now) ==
    /\ ParseUnverified(token)
    /\ token.alg \in {"HS256"}
    /\ token.key = key
    /\ token.exp = 0 \/ now < token.exp
    /\ token.nbf = 0 \/ now >= token.nbf

\* parseToken without the check of auth.go:96-98.
parseToken_NoAlgCheck(token, secret, now) ==
    IF secret = ""
    THEN IF ~ParseUnverified(token)
         THEN [claims |-> SubAbsent, err |-> "invalid token"]
         ELSE [claims |-> token.sub, err |-> ""]
    ELSE IF ~Parse(token, secret, now)
         THEN [claims |-> SubAbsent, err |-> "invalid token"]
         ELSE [claims |-> token.sub, err |-> ""]

\* auth.go:89-119.  err is "" for nil.
parseToken(token, secret, now) ==
    IF secret = ""
    THEN IF ~ParseUnverified(token)
         THEN [claims |-> SubAbsent, err |-> "invalid token"]
         ELSE IF token.alg # "none"
         THEN [claims |-> SubAbsent,
               err |-> "no jwt secret configured; only unsigned tokens (alg=none) are accepted"]
         ELSE [claims |-> token.sub, err |-> ""]
    ELSE IF ~Parse(token, secret, now)
         THEN [claims |-> SubAbsent, err |-> "invalid token"]
         ELSE [claims |-> token.sub, err |-> ""]

\* jwt.MapClaims.GetSubject: "" when the claim is absent, an error when it is
\* not a string.
GetSubject(claims) ==
    CASE claims.kind = "absent" -> [sub |-> "", err |-> ""]
      [] claims.kind = "string" -> [sub |-> claims.value, err |-> ""]
      [] OTHER -> [sub |-> "", err |-> "sub is invalid"]

StatusUnauthorized == 401

\* http.Error without the return that follows it: next is called all the same.
Unauthorized_NoReturn == [status |-> StatusUnauthorized, next |-> TRUE, userID |-> ""]

Unauthorized == [status |-> StatusUnauthorized, next |-> FALSE, userID |-> ""]

\* The middleware without the check of auth.go:44-47.
JWTMiddleware_NoLockedCheck(cfg, r, now) ==
    LET e == extractBearerToken(r)
        p == parseToken(e.token, cfg.Secret, now)
        s == GetSubject(p.claims)
    IN  IF ~e.ok THEN Unauthorized
        ELSE IF p.err # "" THEN Unauthorized
        ELSE IF s.err # "" \/ s.sub = "" THEN Unauthorized
        ELSE [status |-> 0, next |-> TRUE, userID |-> s.sub]

\* auth.go:34-65.  What the middleware does with a request: the status it
\* writes itself (0: none), whether it calls next.ServeHTTP, and the user
\* identifier it puts into the request context for it.
JWTMiddleware(cfg, r, now) ==
    LET e == extractBearerToken(r)
        p == parseToken(e.token, cfg.Secret, now)
        s == GetSubject(p.claims)
    IN  IF ~e.ok THEN Unauthorized
        ELSE IF cfg.Secret = "" /\ ~cfg.AllowUnsignedTokens THEN Unauthorized
        ELSE IF p.err # "" THEN Unauthorized
        ELSE IF s.err # "" \/ s.sub = "" THEN Unauthorized
        ELSE [status |-> 0, next |-> TRUE, userID |-> s.sub]

NoGate == [req |-> NoRequest, status |-> 0, next |-> FALSE, userID |-> ""]

\* The HTTP handler JWTMiddleware returns, serving one request: jwt reads the
\* clock.  The call of next.ServeHTTP is recorded in gate.next with the user
\* identifier of its context (auth.go:69-72); the routes behind it call the
\* handlers above.
ServeHTTP(r) ==
    /\ \E now \in clock..MaxTime :
          /\ clock' = now
          /\ LET g == JWTMiddleware(authCfg, r, now)
             IN  gate' = [req |-> r, status |-> g.status, next |-> g.next,
                          userID |-> g.userID]
    /\ UNCHANGED <<backend, dom, heap, favourites, rows, frames, started, resp, hist,
                   authCfg, httpVars, call>>

\* The requests the gate is given.
Secret1 == "s3cret"
Secret2 == "other"

Schemes == {Bearer, <<"b", "e", "a", "r", "e", "r">>, <<"B", "a", "s", "i", "c">>}

Tokens ==
    {Token(TRUE, alg, key, exp, 0, sub) :
        alg \in {"none", "HS256", "HS384"},
        key \in {"", Secret1, Secret2},
        exp \in {0, 1, MaxTime + 1},
        sub \in {SubAbsent, SubString(""), SubString("alice"), SubNumber}}
    \cup {Token(TRUE, alg, key, 0, nbf, SubString("alice")) :
             alg \in {"none", "HS256"}, key \in {"", Secret1}, nbf \in {1, MaxTime}}
    \cup {Token(FALSE, "", "", 0, 0, SubAbsent),
          Token(TRUE, "XS1", "", 0, 0, SubString("alice"))}

\* Every token as a Bearer token; two good tokens under every scheme; no
\* header and a header without a token.
Requests ==
    {Request(Bearer, TRUE, t) : t \in Tokens}
    \cup {Request(sc, TRUE, t) :
             sc \in Schemes,
             t \in {Token(TRUE, "none", "", 0, 0, SubString("alice")),
                    Token(TRUE, "HS256", Secret1, 0, 0, SubString("alice"))}}
    \cup {Request(<<>>, FALSE, NoToken), Request(Bearer, FALSE, NoToken)}

AuthConfigs == {AuthConfig(sec, allow) : sec \in {"", Secret1}, allow \in BOOLEAN}

-----------------------------------------------------------------------------
(* The favourites routes (routes.go).  An HTTP request is its method, its  *)
(* Authorization header as the gate reads it, its Accept and Content-Type  *)
(* headers as character sequences (empty: no header), the assetID of its   *)
(* path and its body.  A body is what encoding/json makes of it: whether   *)
(* it decodes at all, and the fields of the request struct if it does.     *)

StatusOK == 200
StatusCreated == 201
StatusBadRequest == 400
StatusNotFound == 404
StatusNotAcceptable == 406
StatusConflict == 409
StatusUnsupportedMediaType == 415
StatusTooManyRequests == 429
StatusInternalServerError == 500

MethodGet == "GET"
MethodPost == "POST"
MethodPut == "PUT"
MethodPatch == "PATCH"
MethodDelete == "DELETE"

ApplicationJSON ==
    <<"a", "p", "p", "l", "i", "c", "a", "t", "i", "o", "n", "/", "j",
      "s", "o", "n">>

AnyMediaType ==
    <<"*", "/", "*">>

\* routes.go:97-104.
findSubstring(s, substr) ==
    \E i \in 0..(Len(s) - Len(substr)) : SubSeq(s, i + 1, i + Len(substr)) = substr

\* routes.go:93-95.
contains(s, substr) ==
    Len(s) >= Len(substr) /\ (s = substr \/ (Len(s) > 0 /\ findSubstring(s, substr)))

\* Only a header that is exactly one of the two media types.
acceptsJSON_Exact(accept) ==
    accept = AnyMediaType \/ accept = ApplicationJSON

\* routes.go:80-85.
acceptsJSON(accept) ==
    \/ accept = AnyMediaType
    \/ accept = ApplicationJSON
    \/ contains(accept, ApplicationJSON)
    \/ contains(accept, AnyMediaType)

\* routes.go:88-90.
isJSONContentType(contentType) ==
    contentType = ApplicationJSON \/ contains(contentType, ApplicationJSON)

\* routes.go:52-61: the status the middleware answers with, 0 when it calls
\* next.
acceptJSONMiddleware(r) ==
    IF r.accept = <<>> \/ ~acceptsJSON(r.accept) THEN StatusNotAcceptable ELSE 0

\* The check without the test of the method of routes.go:68.
contentTypeJSONMiddleware_AllMethods(r) ==
    IF r.contentType = <<>> \/ ~isJSONContentType(r.contentType)
    THEN StatusUnsupportedMediaType
    ELSE 0

\* routes.go:66-77.
contentTypeJSONMiddleware(r) ==
    IF r.method \in {MethodPost, MethodPut, MethodPatch}
       /\ (r.contentType = <<>> \/ ~isJSONContentType(r.contentType))
    THEN StatusUnsupportedMediaType
    ELSE 0

\* config.RateLimitConfig.
RateLimitConfig(requests, window) == [Requests |-> requests, Window |-> window]

\* httprate's counter: the index of the latest window it has counted in, and
\* the requests it has admitted per key in that window and in the one before.
Subjects == {"", "alice", "bob"}

NoCounts == [k \in Subjects |-> 0]

NoLimiter == [window |-> 0, latest |-> NoCounts, previous |-> NoCounts]

\* The counter as a request at time now finds it: counts of windows older than
\* the previous one are evicted.
Evict(lim, window) ==
    IF window = lim.window THEN lim
    ELSE IF window = lim.window + 1
    THEN [window |-> window, latest |-> NoCounts, previous |-> lim.latest]
    ELSE [window |-> window, latest |-> NoCounts, previous |-> NoCounts]

\* routes.go:24: the limiter is installed.
Limited(rcfg) == rcfg.Requests > 0 /\ rcfg.Window > 0

\* The previous window's contributions to the rate of a key: its count
\* weighted by the part of the current window still to come, rounded.  The
\* clock of the model does not tell how far into its window a request comes,
\* so every weight is possible.
Carried(lim, rcfg, key, now) ==
    IF Limited(rcfg)
    THEN 0..Evict(lim, now \div rcfg.Window).previous[key]
    ELSE {0}

\* A limiter with one count for all users.
Limit_OneKey(lim, rcfg, key, now, carried) ==
    IF ~Limited(rcfg)
    THEN [status |-> 0, limiter |-> lim]
    ELSE LET l == Evict(lim, now \div rcfg.Window)
             rate == carried + l.latest[""]
         IN  IF rate + 1 > rcfg.Requests
             THEN [status |-> StatusTooManyRequests, limiter |-> l]
             ELSE [status |-> 0,
                   limiter |-> [l EXCEPT !.latest[""] = @ + 1]]

\* routes.go:24-36.  httprate.Limit(Requests, Window) keyed by the user
\* identifier of the context: the request is answered 429 when the rate of its
\* key has reached the limit, and counted otherwise.  No limiter is installed
\* unless Requests and Window are positive.
Limit(lim, rcfg, key, now, carried) ==
    IF ~Limited(rcfg)
    THEN [status |-> 0, limiter |-> lim]
    ELSE LET l == Evict(lim, now \div rcfg.Window)
             rate == carried + l.latest[key]
         IN  IF rate + 1 > rcfg.Requests
             THEN [status |-> StatusTooManyRequests, limiter |-> l]
             ELSE [status |-> 0,
                   limiter |-> [l EXCEPT !.latest[key] = @ + 1]]

\* The request structs of the handlers package, as decoded from a body.
Body(decodes, AssetType, AssetData, Description) ==
    [decodes |-> decodes, AssetType |-> AssetType, AssetData |-> AssetData,
     Description |-> Description]

\* An empty JSON document.
NoData == Marshal(NoAsset)

NoBody == Body(FALSE, "", NoData, <<>>)

AddFavouriteRequest(asset, description) ==
    Body(TRUE, GetType(asset), Marshal(asset), description)

UpdateDescriptionRequest(description) == Body(TRUE, "", NoData, description)

HTTPRequest(method, authorization, accept, contentType, assetID, body) ==
    [method |-> method, authorization |-> authorization, accept |-> accept,
     contentType |-> contentType, assetID |-> assetID, body |-> body]

NoHTTPRequest == HTTPRequest("", NoRequest, <<>>, <<>>, <<>>, NoBody)

\* handlers.ValidateAssetID: an identifier that is empty or all whitespace is
\* a validation error.
ValidateAssetID(assetID) ==
    IF TrimSpace(assetID) = <<>>
    THEN ValidationError(<<"asset ID is required">>)
    ELSE Nil

\* handlers.ParseAddFavouriteRequest: the asset of the variant the type tag
\* names, decoded from asset_data; an unknown tag is an error.
ParseAddFavouriteRequest(req) == unmarshalAssetData(req.AssetType, req.AssetData)

\* A failure of the database connection, as the repository wraps it
\* (favourites_postgres.go:33, 107, 128, 146).
ErrStore == [kind |-> "store failure", Errors |-> <<>>]

\* The statuses without the ErrAlreadyExists branch of routes.go:165-170.
StatusOf_NoConflict(op, err) ==
    CASE op = "GetUserFavourites" ->
            IF err # Nil THEN StatusInternalServerError ELSE StatusOK
      [] op = "AddFavourite" ->
            IF err = Nil THEN StatusCreated
            ELSE IF IsValidationError(err) THEN StatusBadRequest
            ELSE StatusInternalServerError
      [] op = "UpdateDescription" ->
            IF err = Nil THEN StatusOK
            ELSE IF IsValidationError(err) THEN StatusBadRequest
            ELSE IF err = ErrNotFound THEN StatusNotFound
            ELSE StatusInternalServerError
      [] op = "RemoveFavourite" ->
            IF err = Nil THEN StatusOK
            ELSE IF err = ErrNotFound THEN StatusNotFound
            ELSE StatusInternalServerError

\* The status each route gives the error its handler returned
\* (routes.go:117-130, 156-180, 205-229, 247-263).
StatusOf(op, err) ==
    CASE op = "GetUserFavourites" ->
            IF err # Nil THEN StatusInternalServerError ELSE StatusOK
      [] op = "AddFavourite" ->
            IF err = Nil THEN StatusCreated
            ELSE IF IsValidationError(err) THEN StatusBadRequest
            ELSE IF err = ErrAlreadyExists THEN StatusConflict
            ELSE StatusInternalServerError
      [] op = "UpdateDescription" ->
            IF err = Nil THEN StatusOK
            ELSE IF IsValidationError(err) THEN StatusBadRequest
            ELSE IF err = ErrNotFound THEN StatusNotFound
            ELSE StatusInternalServerError
      [] op = "RemoveFavourite" ->
            IF err = Nil THEN StatusOK
            ELSE IF err = ErrNotFound THEN StatusNotFound
            ELSE StatusInternalServerError

\* What was written to a response: the status, the part of the chain that
\* wrote it, and what the handler returned if one was called.  Status 0: the
\* handler is still running.
Response(status, by, outcome) == [status |-> status, by |-> by, outcome |-> outcome]

NoResponse == Response(0, "", NoResp)

\* routes.go:266-275.
respondWithJSON(status, by, outcome) == response' = Response(status, by, outcome)
respondWithError(status, by) == response' = Response(status, by, NoResp)

\* The route has called a handler: it answers when the handler has returned.
respondWhenReturned(op) ==
    IF frames' = frames
    THEN respondWithJSON(StatusOf(op, resp'.err), "handler", resp')
    ELSE response' = Response(0, "handler", NoResp)

\* A handler whose one store call fails on the connection.
StoreCallFails(op, userID, assetID) ==
    /\ backend = "postgres"
    /\ CanStart
    /\ started' = started + 1
    /\ Return(Outcome(op, userID, assetID, NoAsset, <<>>, ErrStore, 0, 0, <<>>))
    /\ UNCHANGED <<backend, dom, clock, heap, favourites, rows, frames, authVars, call>>

\* routes.go:110-131.
getUserFavouritesRoute(r, userID) ==
    /\ \/ GetUserFavourites(userID)
       \/ StoreCallFails("GetUserFavourites", userID, <<>>)
    /\ respondWhenReturned("GetUserFavourites")

\* routes.go:133-181.
addUserFavouriteRoute(r, userID) ==
    LET parsed == ParseAddFavouriteRequest(r.body)
    IN  IF ~r.body.decodes \/ parsed.err # Nil
        THEN /\ respondWithError(StatusBadRequest, "route")
             /\ UNCHANGED <<storeVars, authVars, call>>
        ELSE /\ AddFavourite(userID, parsed.asset, r.body.Description)
             /\ respondWhenReturned("AddFavourite")

\* routes.go:183-230.
updateUserFavouriteRoute(r, userID) ==
    IF ValidateAssetID(r.assetID) # Nil
    THEN /\ respondWithError(StatusBadRequest, "route")
         /\ UNCHANGED <<storeVars, authVars, call>>
    ELSE IF ~r.body.decodes
    THEN /\ respondWithError(StatusBadRequest, "route")
         /\ UNCHANGED <<storeVars, authVars, call>>
    ELSE /\ UpdateDescription(userID, r.assetID, r.body.Description)
         /\ respondWhenReturned("UpdateDescription")

\* The route without the check of routes.go:238-241.
removeUserFavouriteRoute_NoValidateAssetID(r, userID) ==
    /\ \/ RemoveFavourite(userID, r.assetID)
       \/ StoreCallFails("RemoveFavourite", userID, r.assetID)
    /\ respondWhenReturned("RemoveFavourite")

\* routes.go:232-264.
removeUserFavouriteRoute(r, userID) ==
    IF ValidateAssetID(r.assetID) # Nil
    THEN /\ respondWithError(StatusBadRequest, "route")
         /\ UNCHANGED <<storeVars, authVars, call>>
    ELSE /\ \/ RemoveFavourite(userID, r.assetID)
            \/ StoreCallFails("RemoveFavourite", userID, r.assetID)
         /\ respondWhenReturned("RemoveFavourite")

\* routes.go:41-44.
Route(r, userID) ==
    CASE r.method = MethodGet -> getUserFavouritesRoute(r, userID)
      [] r.method = MethodPost -> addUserFavouriteRoute(r, userID)
      [] r.method = MethodPatch -> updateUserFavouriteRoute(r, userID)
      [] r.method = MethodDelete -> removeUserFavouriteRoute(r, userID)

\* A middleware answers the request itself: nothing behind it runs.
ShortCircuit(status, by, now) ==
    /\ respondWithError(status, by)
    /\ clock' = now
    /\ UNCHANGED <<backend, dom, heap, favourites, rows, frames, started, resp, hist,
                   authVars, call>>

\* The chain with the limiter registered before the gate: every request is
\* counted, one without a user under the empty key.
RegisterFavouritesRoutes_LimitFirst(r) ==
    /\ served < dom.maxServed
    /\ served' = served + 1
    /\ request' = r
    /\ UNCHANGED rateCfg
    /\ \E tg \in clock..MaxTime :
          LET g == JWTMiddleware(authCfg, r.authorization, tg)
              key == IF g.next THEN g.userID ELSE ""
          IN  \E carried \in Carried(limiter, rateCfg, key, tg) :
                 LET l == Limit(limiter, rateCfg, key, tg, carried)
                 IN  /\ limiter' = l.limiter
                     /\ IF l.status # 0
                        THEN ShortCircuit(l.status, "httprate.Limit", tg)
                        ELSE IF ~g.next
                        THEN ShortCircuit(g.status, "JWTMiddleware", tg)
                        ELSE IF acceptJSONMiddleware(r) # 0
                        THEN ShortCircuit(acceptJSONMiddleware(r),
                                          "acceptJSONMiddleware", tg)
                        ELSE IF contentTypeJSONMiddleware(r) # 0
                        THEN ShortCircuit(contentTypeJSONMiddleware(r),
                                          "contentTypeJSONMiddleware", tg)
                        ELSE /\ Route(r, g.userID)
                             /\ tg <= clock'

\* The chain with the two header checks registered before the limiter.
RegisterFavouritesRoutes_HeadersFirst(r) ==
    /\ served < dom.maxServed
    /\ served' = served + 1
    /\ request' = r
    /\ UNCHANGED rateCfg
    /\ \E tg \in clock..MaxTime :
          LET g == JWTMiddleware(authCfg, r.authorization, tg)
          IN  IF ~g.next
              THEN /\ ShortCircuit(g.status, "JWTMiddleware", tg)
                   /\ UNCHANGED limiter
              ELSE IF acceptJSONMiddleware(r) # 0
              THEN /\ ShortCircuit(acceptJSONMiddleware(r), "acceptJSONMiddleware", tg)
                   /\ UNCHANGED limiter
              ELSE IF contentTypeJSONMiddleware(r) # 0
              THEN /\ ShortCircuit(contentTypeJSONMiddleware(r),
                                   "contentTypeJSONMiddleware", tg)
                   /\ UNCHANGED limiter
              ELSE \E tl \in (IF Limited(rateCfg) THEN tg..MaxTime ELSE {tg}) :
                   \E carried \in Carried(limiter, rateCfg, g.userID, tl) :
                      LET l == Limit(limiter, rateCfg, g.userID, tl, carried)
                      IN  /\ limiter' = l.limiter
                          /\ IF l.status # 0
                             THEN ShortCircuit(l.status, "httprate.Limit", tl)
                             ELSE /\ Route(r, g.userID)
                                  /\ tl <= clock'

\* routes.go:19-48: one request to /api/v1/favourites through the chain in the
\* order it is registered in: JWTMiddleware, httprate.Limit,
\* acceptJSONMiddleware, contentTypeJSONMiddleware, then the route of the
\* method.  The gate reads the clock, and so does the limiter if there is one.
RegisterFavouritesRoutes(r) ==
    /\ served < dom.maxServed
    /\ served' = served + 1
    /\ request' = r
    /\ UNCHANGED rateCfg
    /\ \E tg \in clock..MaxTime :
          LET g == JWTMiddleware(authCfg, r.authorization, tg)
          IN  IF ~g.next
              THEN /\ ShortCircuit(g.status, "JWTMiddleware", tg)
                   /\ UNCHANGED limiter
              ELSE \E tl \in (IF Limited(rateCfg) THEN tg..MaxTime ELSE {tg}) :
                   \E carried \in Carried(limiter, rateCfg, g.userID, tl) :
                      LET l == Limit(limiter, rateCfg, g.userID, tl, carried)
                      IN  /\ limiter' = l.limiter
                          /\ IF l.status # 0
                             THEN ShortCircuit(l.status, "httprate.Limit", tl)
                             ELSE IF acceptJSONMiddleware(r) # 0
                             THEN ShortCircuit(acceptJSONMiddleware(r),
                                               "acceptJSONMiddleware", tl)
                             ELSE IF contentTypeJSONMiddleware(r) # 0
                             THEN ShortCircuit(contentTypeJSONMiddleware(r),
                                               "contentTypeJSONMiddleware", tl)
                             ELSE /\ Route(r, g.userID)
                                  /\ tl <= clock'

\* routes.go:156-180: AddFavourite returns to its route, which answers.  The
\* INSERT may fail on the connection.
addUserFavouriteRoute_Return(f) ==
    /\ f \in InFrames("AddFavourite", "AddFavouriteInDB")
    /\ \/ AddFavourite_AddFavouriteInDB(f)
       \/ /\ backend = "postgres"
          /\ frames' = frames (-) SetToBag({f})
          /\ heap' = Collect(heap, favourites, frames')
          /\ Return(Outcome("AddFavourite", f.userID, f.assetID, f.asset,
                            f.description, ErrStore, heap[f.favourite].CreatedAt,
                            heap[f.favourite].UpdatedAt, <<>>))
          /\ UNCHANGED <<backend, dom, clock, favourites, rows, started, authVars, call>>
    /\ respondWithJSON(StatusOf("AddFavourite", resp'.err), "handler", resp')
    /\ UNCHANGED <<rateCfg, limiter, served, request>>

\* routes.go:205-229: UpdateDescription returns to its route, which answers.
\* The UPDATE may fail on the connection.
updateUserFavouriteRoute_Return(f) ==
    /\ f \in InFrames("UpdateDescription", "UpdateFavouriteInDB")
    /\ \/ UpdateDescription_UpdateFavouriteInDB(f)
       \/ /\ backend = "postgres"
          /\ frames' = frames (-) SetToBag({f})
          /\ heap' = Collect(heap, favourites, frames')
          /\ Return(Outcome("UpdateDescription", f.userID, f.assetID, NoAsset,
                            f.description, ErrStore, 0,
                            heap[f.favourite].UpdatedAt, <<>>))
          /\ UNCHANGED <<backend, dom, clock, favourites, rows, started, authVars, call>>
    /\ respondWithJSON(StatusOf("UpdateDescription", resp'.err), "handler", resp')
    /\ UNCHANGED <<rateCfg, limiter, served, request>>

\* The requests the routes are given.
TextHTML ==
    <<"t", "e", "x", "t", "/", "h", "t", "m", "l">>

TextPlain ==
    <<"t", "e", "x", "t", "/", "p", "l", "a", "i", "n">>

HTMLOrJSON ==
    <<"t", "e", "x", "t", "/", "h", "t", "m", "l", ",", " ", "a", "p",
      "p", "l", "i", "c", "a", "t", "i", "o", "n", "/", "j", "s", "o",
      "n">>

JSONUTF8 ==
    <<"a", "p", "p", "l", "i", "c", "a", "t", "i", "o", "n", "/", "j",
      "s", "o", "n", ";", " ", "c", "h", "a", "r", "s", "e", "t", "=",
      "u", "t", "f", "-", "8">>

Blank == <<" ">>

Unsigned(sub) == Request(Bearer, TRUE, Token(TRUE, "none", "", 0, 0, SubString(sub)))
SignedBy(sub, key) == Request(Bearer, TRUE, Token(TRUE, "HS256", key, 0, 0, SubString(sub)))
NoAuthorization == Request(<<>>, FALSE, NoToken)

\* The body and the path a client sends with each method when all is well.
GoodBody(method) ==
    CASE method = MethodPost -> AddFavouriteRequest(ChartC1, DescEmpty)
      [] method = MethodPatch -> UpdateDescriptionRequest(DescA)
      [] OTHER -> NoBody

GoodPath(method) == IF method \in {MethodPatch, MethodDelete} THEN c1 ELSE <<>>

Methods == {MethodGet, MethodPost, MethodPatch, MethodDelete}

GoodAuthorizations == {Unsigned("alice"), SignedBy("alice", Secret1)}

\* Every combination of passing and failing checks; the forms of the Accept
\* and Content-Type headers; the path identifiers; the bodies.
HTTPRequests ==
    {HTTPRequest(m, a, acc, ct, GoodPath(m), GoodBody(m)) :
        m \in Methods,
        a \in GoodAuthorizations \cup {Unsigned("bob"), NoAuthorization},
        acc \in {ApplicationJSON, TextHTML},
        ct \in {ApplicationJSON, TextPlain}}
    \cup {HTTPRequest(m, a, acc, ApplicationJSON, GoodPath(m), GoodBody(m)) :
             m \in {MethodGet, MethodPatch},
             a \in GoodAuthorizations,
             acc \in {<<>>, AnyMediaType, HTMLOrJSON}}
    \cup {HTTPRequest(m, a, ApplicationJSON, ct, GoodPath(m), GoodBody(m)) :
             m \in Methods,
             a \in GoodAuthorizations,
             ct \in {<<>>, JSONUTF8}}
    \cup {HTTPRequest(m, a, ApplicationJSON, ApplicationJSON, id, GoodBody(m)) :
             m \in {MethodPatch, MethodDelete},
             a \in GoodAuthorizations,
             id \in {<<>>, Blank}}
    \cup {HTTPRequest(MethodPatch, a, ApplicationJSON, ApplicationJSON, id, NoBody) :
             a \in GoodAuthorizations,
             id \in {<<>>, Blank}}
    \cup {HTTPRequest(MethodPost, a, ApplicationJSON, ApplicationJSON, <<>>, b) :
             a \in GoodAuthorizations,
             b \in {NoBody, Body(TRUE, "video", NoData, DescEmpty),
                    AddFavouriteRequest(ChartNoTitle, DescEmpty)}}
    \cup {HTTPRequest(MethodPatch, a, ApplicationJSON, ApplicationJSON, c1, b) :
             a \in GoodAuthorizations,
             b \in {NoBody, UpdateDescriptionRequest(DescBlank)}}
    \cup {HTTPRequest(m, a, ApplicationJSON, ApplicationJSON, GoodPath(m), GoodBody(m)) :
             m \in {MethodGet, MethodPost},
             a \in {Unsigned(""), SignedBy("", Secret1), SignedBy("alice", Secret2),
                    Request(Bearer, TRUE, Token(TRUE, "none", "", 0, 0, SubAbsent))}}

\* The requests of one client, in the order it sends them: create chart c1,
\* create it again, list, update c1 with an empty description, delete c1,
\* list.  The client presents the token the gate is configured for.
TokenFor(cfg, sub) == IF cfg.Secret # "" THEN SignedBy(sub, cfg.Secret) ELSE Unsigned(sub)

Scenario(authorization) ==
    << HTTPRequest(MethodPost, authorization, ApplicationJSON, ApplicationJSON, <<>>,
                   AddFavouriteRequest(ChartC1, DescEmpty)),
       HTTPRequest(MethodPost, authorization, ApplicationJSON, ApplicationJSON, <<>>,
                   AddFavouriteRequest(ChartC1, DescEmpty)),
       HTTPRequest(MethodGet, authorization, ApplicationJSON, <<>>, <<>>, NoBody),
       HTTPRequest(MethodPatch, authorization, ApplicationJSON, ApplicationJSON, c1,
                   UpdateDescriptionRequest(DescEmpty)),
       HTTPRequest(MethodDelete, authorization, ApplicationJSON, <<>>, c1, NoBody),
       HTTPRequest(MethodGet, authorization, ApplicationJSON, <<>>, <<>>, NoBody) >>

\* One client, all its requests served one after the other; the history is
\* kept.
DomScenario(userID) ==
    [users |-> {userID},
     assets |-> {ChartC1},
     assetIDs |-> {c1},
     createDescs |-> {DescEmpty},
     updateDescs |-> {DescEmpty},
     record |-> TRUE,
     maxRequests |-> Len(Scenario(NoAuthorization)),
     maxServed |-> Len(Scenario(NoAuthorization))]

\* Unsigned-allowed and Signed; no limit, and a limit the client stays within.
ScenarioAuthConfigs == {AuthConfig("", TRUE), AuthConfig(Secret1, FALSE)}

ScenarioRateLimitConfigs ==
    {RateLimitConfig(0, 0), RateLimitConfig(Len(Scenario(NoAuthorization)), MaxTime + 1)}

\* Locked, Unsigned-allowed and Signed.
HTTPAuthConfigs == {AuthConfig("", FALSE), AuthConfig("", TRUE), AuthConfig(Secret1, FALSE)}

RateLimitConfigs == {RateLimitConfig(0, 0), RateLimitConfig(1, 1)}

-----------------------------------------------------------------------------
(* The service: requests arrive and the handlers in flight take steps.     *)


InitStore(d) ==
    /\ backend \in {"mock", "postgres"}
    /\ dom = d
    /\ clock = 1
    /\ heap = <<>>
    /\ favourites = <<>>
    /\ rows = {}
    /\ frames = EmptyBag
    /\ started = 0
    /\ resp = NoResp
    /\ hist = EmptyBag
    /\ call = NoCall

\* No routes registered: the handlers are called directly.
NoRoutes ==
    /\ rateCfg = RateLimitConfig(0, 0)
    /\ limiter = NoLimiter
    /\ served = 0
    /\ request = NoHTTPRequest
    /\ response = NoResponse

Init == InitStore(DomFull) /\ authCfg = NoAuthConfig /\ gate = NoGate /\ NoRoutes

InitRace == InitStore(DomRace) /\ authCfg = NoAuthConfig /\ gate = NoGate /\ NoRoutes

DoAddFavourite ==
    /\ \E u \in dom.users, a \in dom.assets, d \in dom.createDescs : AddFavourite(u, a, d)
    /\ UNCHANGED httpVars
DoAddFavourite_UpdatedAt ==
    /\ \E f \in InFrames("AddFavourite", "UpdatedAt") : AddFavourite_UpdatedAt(f)
    /\ UNCHANGED httpVars
DoAddFavourite_AddFavouriteInDB ==
    /\ \E f \in InFrames("AddFavourite", "AddFavouriteInDB") : AddFavourite_AddFavouriteInDB(f)
    /\ UNCHANGED httpVars
DoUpdateDescription ==
    /\ \E u \in dom.users, a \in dom.assetIDs, d \in dom.updateDescs :
           UpdateDescription(u, a, d)
    /\ UNCHANGED httpVars
DoUpdateDescription_Description ==
    /\ \E f \in InFrames("UpdateDescription", "Description") : UpdateDescription_Description(f)
    /\ UNCHANGED httpVars
DoUpdateDescription_UpdatedAt ==
    /\ \E f \in InFrames("UpdateDescription", "UpdatedAt") : UpdateDescription_UpdatedAt(f)
    /\ UNCHANGED httpVars
DoUpdateDescription_UpdateFavouriteInDB ==
    /\ \E f \in InFrames("UpdateDescription", "UpdateFavouriteInDB") :
           UpdateDescription_UpdateFavouriteInDB(f)
    /\ UNCHANGED httpVars
DoRemoveFavourite ==
    /\ \E u \in dom.users, a \in dom.assetIDs : RemoveFavourite(u, a)
    /\ UNCHANGED httpVars
DoGetUserFavourites ==
    /\ \E u \in dom.users : GetUserFavourites(u)
    /\ UNCHANGED httpVars

Next ==
    \/ DoAddFavourite
    \/ DoAddFavourite_UpdatedAt
    \/ DoAddFavourite_AddFavouriteInDB
    \/ DoUpdateDescription
    \/ DoUpdateDescription_Description
    \/ DoUpdateDescription_UpdatedAt
    \/ DoUpdateDescription_UpdateFavouriteInDB
    \/ DoRemoveFavourite
    \/ DoGetUserFavourites

Spec == Init /\ [][Next]_vars

SpecRace == InitRace /\ [][Next]_vars

\* One user with two favourites.
InitList == InitStore(DomList) /\ authCfg = NoAuthConfig /\ gate = NoGate /\ NoRoutes

SpecList == InitList /\ [][Next]_vars

\* The data column of every asset, as AddFavouriteInDB writes it, read back
\* under every asset_type.
InitCodec == InitStore(DomCodec) /\ authCfg = NoAuthConfig /\ gate = NoGate /\ NoRoutes

DoUnmarshalAssetData ==
    \E t \in AssetTypes \cup UnknownAssetTypes, a \in dom.assets :
        CallUnmarshalAssetData(t, Marshal(a))

NextCodec == DoUnmarshalAssetData

SpecCodec == InitCodec /\ [][NextCodec]_vars

\* validateAsset applied to every chart and insight of the domain.
InitValidate ==
    InitStore(DomValidate) /\ authCfg = NoAuthConfig /\ gate = NoGate /\ NoRoutes

\* One call in a behaviour: validateAsset keeps no state between calls.
DoValidateAsset == call = NoCall /\ \E a \in dom.assets : CallValidateAsset(a)

NextValidate == DoValidateAsset

SpecValidate == InitValidate /\ [][NextValidate]_vars

\* One key, descriptions of every kind.
InitDesc == InitStore(DomDesc) /\ authCfg = NoAuthConfig /\ gate = NoGate /\ NoRoutes

SpecDesc == InitDesc /\ [][Next]_vars

\* The gate alone, under each configuration.
InitAuth == InitStore(DomRace) /\ authCfg \in AuthConfigs /\ gate = NoGate /\ NoRoutes

DoServeHTTP == \E r \in Requests : ServeHTTP(r)

NextAuth == DoServeHTTP

SpecAuth == InitAuth /\ [][NextAuth]_vars

\* The routes, under each configuration of the gate and of the limiter.
InitHTTP ==
    /\ InitStore(DomHTTP)
    /\ authCfg \in HTTPAuthConfigs
    /\ gate = NoGate
    /\ rateCfg \in RateLimitConfigs
    /\ limiter = NoLimiter
    /\ served = 0
    /\ request = NoHTTPRequest
    /\ response = NoResponse

DoRegisterFavouritesRoutes == \E r \in HTTPRequests : RegisterFavouritesRoutes(r)
DoAddUserFavouriteRoute_Return ==
    \E f \in InFrames("AddFavourite", "AddFavouriteInDB") : addUserFavouriteRoute_Return(f)
DoUpdateUserFavouriteRoute_Return ==
    \E f \in InFrames("UpdateDescription", "UpdateFavouriteInDB") :
        updateUserFavouriteRoute_Return(f)

NextHTTP ==
    \/ DoRegisterFavouritesRoutes
    \/ DoAddFavourite_UpdatedAt
    \/ DoAddUserFavouriteRoute_Return
    \/ DoUpdateDescription_Description
    \/ DoUpdateDescription_UpdatedAt
    \/ DoUpdateUserFavouriteRoute_Return

SpecHTTP == InitHTTP /\ [][NextHTTP]_vars

\* One client that sends each request when the one before has been answered.
InitScenario ==
    /\ \E u \in {"alice", "bob"} : InitStore(DomScenario(u))
    /\ authCfg \in ScenarioAuthConfigs
    /\ gate = NoGate
    /\ rateCfg \in ScenarioRateLimitConfigs
    /\ limiter = NoLimiter
    /\ served = 0
    /\ request = NoHTTPRequest
    /\ response = NoResponse

DoScenario ==
    /\ BagToSet(frames) = {}
    /\ served < Len(Scenario(NoAuthorization))
    /\ \E u \in dom.users :
          RegisterFavouritesRoutes(Scenario(TokenFor(authCfg, u))[served + 1])

NextScenario ==
    \/ DoScenario
    \/ DoAddFavourite_UpdatedAt
    \/ DoAddUserFavouriteRoute_Return

SpecScenario == InitScenario /\ [][NextScenario]_vars

-----------------------------------------------------------------------------
(* What the store holds, as a caller of GetFavouriteFromDB sees it.        *)

Keys == dom.users \X dom.assetIDs

\* The records stored under (userID, assetID), as values: none or one.
Lookup(userID, assetID) ==
    IF backend = "mock"
    THEN LET g == MockGetFavouriteFromDB(favourites, userID, assetID)
         IN  IF g.err = Nil THEN {heap[g.ref]} ELSE {}
    ELSE {scanFavourite(r).fav : r \in Matching(rows, userID, assetID)}

StoreView == [k \in Keys |-> Lookup(k[1], k[2])]

Quiescent == BagToSet(frames) = {}

\* The operations of the history that satisfy P, counted with multiplicity.
Count(P(_)) ==
    LET S == {o \in BagToSet(hist) : P(o)}
    IN  BagCardinality([o \in S |-> hist[o]])

OnKey(o, k) == o.userID = k[1] /\ o.assetID = k[2]

-----------------------------------------------------------------------------
(* C1: two creates of one absent key, one after the other or concurrently, *)
(* on either backend: exactly one succeeds and the other returns           *)
(* AlreadyExists; the store never holds two records for one composite key. *)
(* Stated over the history: as long as no delete of the key has succeeded, *)
(* the valid creates of the key that returned are one success and          *)
(* AlreadyExists for all the others, and the winner's record is stored.    *)

C1_Creates(k) ==
    Count(LAMBDA o : o.op = "AddFavourite" /\ OnKey(o, k) /\ validateAsset(o.asset) = Nil)
C1_Created(k) ==
    Count(LAMBDA o : o.op = "AddFavourite" /\ OnKey(o, k) /\ o.err = Nil)
C1_Refused(k) ==
    Count(LAMBDA o : o.op = "AddFavourite" /\ OnKey(o, k) /\ o.err = ErrAlreadyExists)
C1_Removed(k) ==
    Count(LAMBDA o : o.op = "RemoveFavourite" /\ OnKey(o, k) /\ o.err = Nil)

\* C1: at most one record per key; of the valid creates of a key that returned
\* (no delete of it having succeeded) one succeeded and the others got
\* AlreadyExists.
C1_CreateOnce ==
    /\ \A k \in Keys : Cardinality(Lookup(k[1], k[2])) <= 1
    /\ backend = "postgres" =>
          \A r1, r2 \in rows : (r1.user_id = r2.user_id /\ r1.id = r2.id) => r1 = r2
    /\ \A k \in Keys :
          (C1_Removed(k) = 0 /\ C1_Creates(k) > 0) =>
             /\ C1_Created(k) = 1
             /\ C1_Refused(k) = C1_Creates(k) - 1
             /\ Lookup(k[1], k[2]) # {}

\* Two creates of one key have returned, one of them refused, no delete.
C1_Witness ==
    \E k \in Keys :
        /\ C1_Removed(k) = 0
        /\ C1_Created(k) = 1
        /\ C1_Refused(k) >= 1

-----------------------------------------------------------------------------
(* C2: every concurrent history of create, update-description and delete   *)
(* on one key is equivalent to some serial order of the same operations:   *)
(* same outcomes, same final stored record.                                *)

\* One operation applied atomically to a store (key -> set of records), each
\* with the clock values the operation itself read.
SerialApply(store, o) ==
    LET k == <<o.userID, o.assetID>>
        With(recs) == [x \in Keys |-> IF x = k THEN recs ELSE store[x]]
    IN  CASE o.op = "AddFavourite" ->
                IF validateAsset(o.asset) # Nil
                THEN [store |-> store, err |-> validateAsset(o.asset)]
                ELSE IF store[k] # {} THEN [store |-> store, err |-> ErrAlreadyExists]
                ELSE [store |-> With({[ID |-> GetID(o.asset), UserID |-> o.userID,
                                       AssetType |-> GetType(o.asset),
                                       Description |-> o.description,
                                       CreatedAt |-> o.t1, UpdatedAt |-> o.t2,
                                       Data |-> o.asset]}),
                      err |-> Nil]
          [] o.op = "UpdateDescription" ->
                IF validateDescription(o.description) # Nil
                THEN [store |-> store, err |-> validateDescription(o.description)]
                ELSE IF store[k] = {} THEN [store |-> store, err |-> ErrNotFound]
                ELSE [store |-> With({[r EXCEPT !.Description = o.description,
                                                !.UpdatedAt = o.t2] : r \in store[k]}),
                      err |-> Nil]
          [] o.op = "RemoveFavourite" ->
                IF store[k] = {} THEN [store |-> store, err |-> ErrNotFound]
                ELSE [store |-> With({}), err |-> Nil]
          [] OTHER -> [store |-> store, err |-> o.err]

\* The bag without one copy of o.
Without(ops, o) ==
    IF ops[o] = 1 THEN [x \in DOMAIN ops \ {o} |-> ops[x]]
    ELSE [ops EXCEPT ![o] = ops[o] - 1]

RECURSIVE Serializable(_, _)
Serializable(ops, store) ==
    IF DOMAIN ops = {}
    THEN store = StoreView
    ELSE \E o \in DOMAIN ops :
            LET r == SerialApply(store, o)
            IN  r.err = o.err /\ Serializable(Without(ops, o), r.store)

\* C2: once every invocation has returned, some serial order of the operations
\* of the history gives each its outcome and ends in the store as it is.
C2_Linearizable ==
    Quiescent => Serializable(hist, [k \in Keys |-> {}])

-----------------------------------------------------------------------------
(* C3: a successful update-description changes neither created_at nor the  *)
(* asset payload (nor the key and the type) of the stored record: the      *)
(* record stored right after the update's write differs from the one       *)
(* stored right before it in description and updated_at only.              *)

SameButDescription(before, after) ==
    \A b \in before : \E a \in after :
        /\ a.CreatedAt = b.CreatedAt
        /\ a.Data = b.Data
        /\ a.AssetType = b.AssetType
        /\ a.ID = b.ID
        /\ a.UserID = b.UserID

\* C3: the write of a successful update-description keeps created_at, the
\* payload, the type and the key of the record stored under the key.
C3_UpdateKeepsPayload ==
    [][\A f \in BagToSet(frames) :
          (UpdateDescription_UpdateFavouriteInDB(f) /\ resp'.err = Nil) =>
             SameButDescription(Lookup(f.userID, f.assetID),
                                Lookup(f.userID, f.assetID)')]_vars

-----------------------------------------------------------------------------
(* C4: every stored record has updated_at >= created_at.                   *)

\* C4: updated_at >= created_at in every stored record, in every reachable state.
C4_UpdatedNotBeforeCreated ==
    \A k \in Keys : \A r \in Lookup(k[1], k[2]) : r.UpdatedAt >= r.CreatedAt

-----------------------------------------------------------------------------
(* C5: each successful update-description strictly increases the stored    *)
(* record's updated_at.                                                    *)

\* C5: the write of a successful update-description stores an updated_at greater
\* than the one stored before it.
C5_UpdatedAtIncreases ==
    [][\A f \in BagToSet(frames) :
          (UpdateDescription_UpdateFavouriteInDB(f) /\ resp'.err = Nil) =>
             \A b \in Lookup(f.userID, f.assetID) :
                \A a \in Lookup(f.userID, f.assetID)' : a.UpdatedAt > b.UpdatedAt]_vars

-----------------------------------------------------------------------------
(* The store as the repository holds it, not as a lookup through it.       *)

\* No record is stored under (userID, assetID).
Absent(userID, assetID) ==
    IF backend = "mock"
    THEN userID \notin DOMAIN favourites \/ assetID \notin DOMAIN favourites[userID]
    ELSE ~\E r \in rows : r.user_id = userID /\ r.id = assetID

\* Every record of the store whose owner is userID.
Owned(userID) ==
    IF backend = "mock"
    THEN {heap[r] : r \in {q \in MapRefs(favourites) : heap[q].UserID = userID}}
    ELSE {scanFavourite(r).fav : r \in {q \in rows : q.user_id = userID}}

\* The step is the return of an invocation that started in this step.
ReturnsAtOnce == frames' = frames

-----------------------------------------------------------------------------
(* C6: update-description (with a valid description), delete and the       *)
(* store's get on a composite key that is not stored for that user return  *)
(* NotFound, whether the key was never created, was removed, or is stored  *)
(* for another user only.  After a successful delete the key is absent; an *)
(* absent key becomes stored only by a create of that key, and a create    *)
(* whose store call finds the key absent succeeds.                         *)

C6_Steps ==
    /\ \A u \in dom.users, a \in dom.assetIDs, d \in dom.updateDescs :
          (UpdateDescription(u, a, d) /\ Absent(u, a) /\ validateDescription(d) = Nil) =>
             /\ ReturnsAtOnce
             /\ resp'.err = ErrNotFound
             /\ Absent(u, a)'
    /\ \A f \in BagToSet(frames) :
          (UpdateDescription_UpdateFavouriteInDB(f) /\ Absent(f.userID, f.assetID)) =>
             /\ resp'.err = ErrNotFound
             /\ Absent(f.userID, f.assetID)'
    /\ \A u \in dom.users, a \in dom.assetIDs :
          RemoveFavourite(u, a) =>
             /\ Absent(u, a)'
             /\ resp'.err = IF Absent(u, a) THEN ErrNotFound ELSE Nil
    /\ \A k \in Keys :
          (Absent(k[1], k[2]) /\ ~Absent(k[1], k[2])') =>
             \E f \in InFrames("AddFavourite", "AddFavouriteInDB") :
                /\ f.userID = k[1]
                /\ f.assetID = k[2]
                /\ AddFavourite_AddFavouriteInDB(f)
    /\ \A f \in BagToSet(frames) :
          (AddFavourite_AddFavouriteInDB(f) /\ Absent(f.userID, f.assetID)) =>
             /\ resp'.err = Nil
             /\ ~Absent(f.userID, f.assetID)'

C6_Get ==
    \A k \in Keys :
        Absent(k[1], k[2]) => GetFavouriteFromDB(k[1], k[2]).err = ErrNotFound

\* C6 (as amended): on an absent key a valid update-description, delete and get
\* return NotFound; a deleted key stays absent until a create, which succeeds.
C6_NotFoundWhenAbsent == [](C6_Get) /\ [][C6_Steps]_vars

\* A user's update or delete returned NotFound while another user stores the
\* same assetID.
C6_Witness ==
    /\ resp.op \in {"UpdateDescription", "RemoveFavourite"}
    /\ resp.err = ErrNotFound
    /\ Absent(resp.userID, resp.assetID)
    /\ \E u \in dom.users \ {resp.userID} : ~Absent(u, resp.assetID)

\* C6 (as stated): every update-description on an absent key returns NotFound.
C6_UpdateNotFoundWhateverInput ==
    [][\A u \in dom.users, a \in dom.assetIDs, d \in dom.updateDescs :
          (UpdateDescription(u, a, d) /\ Absent(u, a)) => resp'.err = ErrNotFound]_vars

-----------------------------------------------------------------------------
\* C7: a create, update-description or delete that returns an error
\* (ValidationError, AlreadyExists, NotFound) has left the store unchanged:
\* neither the step that returns nor an earlier step of the invocation has
\* changed a stored record.
C7_FailedCallsChangeNothing ==
    [][/\ \A u \in dom.users, x \in dom.assets, d \in dom.createDescs :
             (AddFavourite(u, x, d) /\ ReturnsAtOnce) => Stored(heap)' = Stored(heap)
       /\ \A u \in dom.users, a \in dom.assetIDs, d \in dom.updateDescs :
             (UpdateDescription(u, a, d) /\ ReturnsAtOnce) => Stored(heap)' = Stored(heap)
       /\ \A u \in dom.users, a \in dom.assetIDs :
             (RemoveFavourite(u, a) /\ resp'.err # Nil) => Stored(heap)' = Stored(heap)
       /\ \A f \in BagToSet(frames) :
             ((\/ AddFavourite_AddFavouriteInDB(f)
               \/ UpdateDescription_UpdateFavouriteInDB(f)) /\ resp'.err # Nil) =>
                /\ Stored(heap)' = Stored(heap)
                /\ ~f.wrote]_vars

-----------------------------------------------------------------------------
\* C8: a create whose asset is invalid or whose description is longer than
\* maxStringLength returns ValidationError at once, without a store call and
\* whether or not the key exists.
C8_InvalidCreateRejected ==
    [][\A u \in dom.users, x \in dom.assets, d \in dom.createDescs :
          (AddFavourite(u, x, d) /\ (validateAsset(x) # Nil \/ Len(d) > maxStringLength)) =>
             /\ ReturnsAtOnce
             /\ IsValidationError(resp'.err)
             /\ Stored(heap)' = Stored(heap)]_vars

-----------------------------------------------------------------------------
(* C9: ownership isolation.  A list for a user returns exactly the records *)
(* the store holds for that owner, each once, and no error; a step of a    *)
(* create, update-description or delete of one user changes neither the    *)
(* records of another user nor what a list for that user may return.       *)

StepOf(b) ==
    \/ \E x \in dom.assets, d \in dom.createDescs : AddFavourite(b, x, d)
    \/ \E a \in dom.assetIDs, d \in dom.updateDescs : UpdateDescription(b, a, d)
    \/ \E a \in dom.assetIDs : RemoveFavourite(b, a)
    \/ \E f \in BagToSet(frames) :
          /\ f.userID = b
          /\ \/ AddFavourite_UpdatedAt(f)
             \/ AddFavourite_AddFavouriteInDB(f)
             \/ UpdateDescription_Description(f)
             \/ UpdateDescription_UpdatedAt(f)
             \/ UpdateDescription_UpdateFavouriteInDB(f)

\* C9: list(A) is exactly A's records; B's operations leave them alone.
C9_OwnershipIsolation ==
    [][/\ \A u \in dom.users :
             GetUserFavourites(u) =>
                /\ resp'.err = Nil
                /\ {resp'.list[i] : i \in 1..Len(resp'.list)} = Owned(u)
                /\ Len(resp'.list) = Cardinality(Owned(u))
       /\ \A b \in dom.users :
             StepOf(b) =>
                \A a \in dom.users \ {b} :
                   /\ Owned(a)' = Owned(a)
                   /\ GetUserFavouritesFromDB(a)' = GetUserFavouritesFromDB(a)]_vars

\* A list returned one user's record while another user stores a different
\* record under the same assetID.
C9_Witness ==
    /\ resp.op = "GetUserFavourites"
    /\ Len(resp.list) >= 1
    /\ \E b \in dom.users \ {resp.userID} :
          \E r \in Owned(b) :
             /\ r.ID = resp.list[1].ID
             /\ r.Description # resp.list[1].Description

-----------------------------------------------------------------------------
(* C10: in Locked configuration (no secret, unsigned tokens not allowed)   *)
(* the gate answers every request with 401 and does not call the           *)
(* downstream handler, whatever the Authorization header and the token.    *)

Locked(cfg) == cfg.Secret = "" /\ ~cfg.AllowUnsignedTokens

\* C10: Locked => 401 and no call of next, for every request.
C10_LockedRejectsAll ==
    [][(Locked(authCfg) /\ gate'.req \in Requests /\ ServeHTTP(gate'.req)) =>
          /\ gate'.status = StatusUnauthorized
          /\ ~gate'.next
          /\ gate'.userID = ""]_vars

\* The locked gate has rejected a request that the gate would pass if unsigned
\* tokens were allowed.
C10_Witness ==
    /\ Locked(authCfg)
    /\ gate.status = StatusUnauthorized
    /\ JWTMiddleware(AuthConfig("", TRUE), gate.req, clock).next

-----------------------------------------------------------------------------
(* C11.  A gate configured with a secret.                                   *)

Signed(cfg) == cfg.Secret # ""

\* The request carries a token: its Authorization header has the Bearer form.
Presented(r) == extractBearerToken(r).ok

HasSubject(token) == token.sub.kind = "string" /\ token.sub.value # ""

SignedWith(token, secret) ==
    token.wellFormed /\ token.alg = "HS256" /\ token.key = secret

Unexpired(token, now) == token.exp = 0 \/ now < token.exp

Rejected401(g) == g.status = StatusUnauthorized /\ ~g.next /\ g.userID = ""

\* C11 as stated: in Signed configuration the gate accepts a presented token
\* if and only if it is HS256-signed with the configured secret, unexpired at
\* the time the gate reads the clock and carries a non-empty subject; every
\* other token is answered 401.
C11_SignedAcceptsIff ==
    [][(Signed(authCfg) /\ gate'.req \in Requests /\ ServeHTTP(gate'.req)
            /\ Presented(gate'.req))
        => LET t == gate'.req.token IN
           /\ gate'.next <=> (SignedWith(t, authCfg.Secret) /\ Unexpired(t, clock')
                                 /\ HasSubject(t))
           /\ ~gate'.next => Rejected401(gate')]_vars

\* C11 amended: in Signed configuration the gate accepts a presented token if
\* and only if it is HS256-signed with the configured secret, unexpired, not
\* used before its not-before time and carries a non-empty subject; every
\* other token (alg=none, another secret or algorithm, expired) is answered 401.
C11_SignedAcceptsIffValidNow ==
    [][(Signed(authCfg) /\ gate'.req \in Requests /\ ServeHTTP(gate'.req)
            /\ Presented(gate'.req))
        => LET t == gate'.req.token IN
           /\ gate'.next <=> (SignedWith(t, authCfg.Secret) /\ Unexpired(t, clock')
                                 /\ (t.nbf = 0 \/ clock' >= t.nbf)
                                 /\ HasSubject(t))
           /\ gate'.next => gate'.userID = t.sub.value
           /\ ~gate'.next => Rejected401(gate')]_vars

\* A signed token with a not-before time has been accepted by a Signed gate.
C11_Witness ==
    /\ Signed(authCfg)
    /\ gate.next
    /\ gate.req.token.alg = "HS256"
    /\ gate.req.token.nbf = MaxTime

-----------------------------------------------------------------------------
(* C12.  A gate without a secret that allows unsigned tokens.               *)

UnsignedAllowed(cfg) == cfg.Secret = "" /\ cfg.AllowUnsignedTokens

\* C12: in Unsigned-allowed configuration the gate answers 401 to every token
\* whose algorithm is not "none" and to every token that does not decode, and
\* accepts every token that decodes with alg=none and a non-empty subject,
\* whatever its exp and nbf claims and the time.
C12_UnsignedAcceptsIff ==
    [][(UnsignedAllowed(authCfg) /\ gate'.req \in Requests /\ ServeHTTP(gate'.req)
            /\ Presented(gate'.req))
        => LET t == gate'.req.token IN
           /\ (~t.wellFormed \/ t.alg # "none") => Rejected401(gate')
           /\ (t.wellFormed /\ t.alg = "none" /\ HasSubject(t))
                 => gate'.next /\ gate'.status = 0 /\ gate'.userID = t.sub.value
           /\ gate'.next \/ Rejected401(gate')]_vars

\* An unsigned token that has expired has been accepted by an Unsigned-allowed
\* gate.
C12_Witness ==
    /\ UnsignedAllowed(authCfg)
    /\ gate.next
    /\ gate.req.token.alg = "none"
    /\ gate.req.token.exp = 1

-----------------------------------------------------------------------------
(* C16.  The order of a list.                                               *)

NewestFirst(list) ==
    \A i, j \in 1..Len(list) : i < j => list[i].CreatedAt >= list[j].CreatedAt

\* C16: on both backends every list GetUserFavourites returns is ordered by
\* non-increasing created_at, after any creates, updates and deletes.
C16_ListNewestFirst ==
    resp.op = "GetUserFavourites" => NewestFirst(resp.list)

-----------------------------------------------------------------------------
(* C13.  The gate in front of the routes.                                   *)

\* A step in which the routes were given a request.
Served == served' = served + 1

\* Something behind the gate ran for the request: the limiter, a middleware,
\* a route or a handler answered it or is about to.
PastGate == response'.by # "JWTMiddleware"

HandlerCalled == started' = started + 1

\* The user a handler was called for in this step.
CalledFor ==
    IF frames' = frames
    THEN resp'.userID
    ELSE (CHOOSE f \in BagToSet(frames' (-) frames) : TRUE).userID

StoreUntouched ==
    /\ heap' = heap
    /\ favourites' = favourites
    /\ rows' = rows
    /\ frames' = frames
    /\ started' = started
    /\ resp' = resp

\* C13: whatever the configuration, a request gets past the gate if and only
\* if the gate accepted its token, and then the handler called for it is
\* called for the token's subject, which is not empty; a token without a
\* subject, or with an empty one, is answered 401; a request the gate rejects
\* is answered 401, reaches neither the limiter nor a handler and leaves the
\* store as it was.
C13_GateAllOrNothing ==
    [][Served =>
        LET a == request'.authorization
            t == a.token
        IN  /\ PastGate <=> \E now \in clock..clock' : JWTMiddleware(authCfg, a, now).next
            /\ PastGate => Presented(a) /\ HasSubject(t)
            /\ (PastGate /\ HandlerCalled) => CalledFor = t.sub.value /\ CalledFor # ""
            /\ ~HasSubject(t) => ~PastGate
            /\ ~PastGate => /\ response'.status = StatusUnauthorized
                            /\ StoreUntouched
                            /\ limiter' = limiter]_vars

\* The gate has rejected a create while a favourite is stored.
C13_Witness ==
    /\ response.by = "JWTMiddleware"
    /\ response.status = StatusUnauthorized
    /\ request.method = MethodPost
    /\ \E u \in dom.users : ~Absent(u, c1)

-----------------------------------------------------------------------------
(* C14.  The order of the checks.                                           *)

\* The gate accepts the request given last.
AuthOK == \E now \in clock..clock' : JWTMiddleware(authCfg, request'.authorization, now).next

\* The user of the request has used up the limit in the window the request
\* comes in.
OverLimit ==
    /\ Limited(rateCfg)
    /\ clock' \div rateCfg.Window = limiter.window
    /\ limiter.latest[request'.authorization.token.sub.value] >= rateCfg.Requests

AcceptOK == acceptJSONMiddleware(request') = 0

ContentTypeOK == contentTypeJSONMiddleware(request') = 0

\* The request reached a route: the route or its handler answers it.
Routed == response'.by \in {"route", "handler"}

\* C14: the checks are made in the order authentication, rate limit, Accept,
\* Content-Type, and the first that fails alone decides the response: 401
\* whatever else is wrong, 429 for an authenticated request over the limit
\* even with a bad Accept header, 406 and not 415 for a request with a bad
\* Accept and a bad Content-Type; no route and no handler runs unless all four
\* checks passed.
C14_FirstFailingCheckDecides ==
    [][Served =>
        LET status == response'.status
            limited == status = StatusTooManyRequests
        IN  /\ ~AuthOK => status = StatusUnauthorized
            /\ (AuthOK /\ OverLimit) => limited
            /\ limited => AuthOK /\ response'.by = "httprate.Limit"
            /\ (AuthOK /\ ~limited /\ ~AcceptOK) => status = StatusNotAcceptable
            /\ (AuthOK /\ ~limited /\ AcceptOK /\ ~ContentTypeOK)
                  => status = StatusUnsupportedMediaType
            /\ (Routed \/ HandlerCalled)
                  => AuthOK /\ ~OverLimit /\ ~limited /\ AcceptOK /\ ContentTypeOK
            /\ ~Routed => StoreUntouched]_vars

\* A create over the limit with neither header acceptable has been answered
\* 429.
C14_Witness ==
    /\ response.status = StatusTooManyRequests
    /\ request.method = MethodPost
    /\ ~acceptsJSON(request.accept)
    /\ ~isJSONContentType(request.contentType)

-----------------------------------------------------------------------------
(* C15.  The limit of each user.                                            *)

\* The user of the request given last, once the gate has accepted it.
User == request'.authorization.token.sub.value

\* The counter as a request that comes at time now finds it.
Found(now) == Evict(limiter, now \div rateCfg.Window)

\* C15: with a limit of N requests per window configured, a request of a user
\* with N requests admitted in the window it comes in is answered 429, calls
\* no handler and leaves the store alone; a request is answered 429 only when
\* its own user has requests counted in this window or the previous one,
\* whatever the counts of the other users; an admitted request adds one to the
\* count of its user and to no other.
C15_LimitPerUser ==
    [][(Served /\ Limited(rateCfg) /\ AuthOK) =>
        LET limited == response'.status = StatusTooManyRequests
        IN  /\ OverLimit => limited
            /\ limited => /\ ~HandlerCalled
                          /\ StoreUntouched
                          /\ response'.by = "httprate.Limit"
            /\ \E now \in clock..clock' :
                  LET found == Found(now)
                  IN  IF limited
                      THEN /\ found.latest[User] + found.previous[User] >= rateCfg.Requests
                           /\ limiter' = found
                      ELSE /\ found.latest[User] < rateCfg.Requests
                           /\ limiter' = [found EXCEPT !.latest[User] = @ + 1]]_vars

\* A user's request over the limit has been answered 429 while another user
\* has none counted.
C15_Witness ==
    /\ Limited(rateCfg)
    /\ response.status = StatusTooManyRequests
    /\ limiter.latest["alice"] = rateCfg.Requests
    /\ limiter.latest["bob"] = 0

-----------------------------------------------------------------------------
(* C17.  The status of each outcome.                                        *)

Success(status) == status \in 200..299

\* The response written last answers a handler that has returned.
Answered == response.by = "handler" /\ response.status # 0

C17_Mapping ==
    Answered =>
        LET op == response.outcome.op
            err == response.outcome.err
            status == response.status
        IN  /\ IsValidationError(err) => status = StatusBadRequest
            /\ err = ErrAlreadyExists => status = StatusConflict /\ op = "AddFavourite"
            /\ err = ErrNotFound
                  => status = StatusNotFound /\ op \in {"UpdateDescription", "RemoveFavourite"}
            /\ (err \notin {Nil, ErrAlreadyExists, ErrNotFound} /\ ~IsValidationError(err))
                  => status = StatusInternalServerError
            /\ err = Nil
                  => status = IF op = "AddFavourite" THEN StatusCreated ELSE StatusOK
            /\ err # Nil => ~Success(status)

\* What a route answers with is what its handler has just returned, at once
\* or as the last step of an invocation in flight.
C17_Answers ==
    (response' # response /\ Answered')
        => response'.outcome = resp' /\ (HandlerCalled \/ frames' # frames)

\* C17: whenever a route answers for a handler that returned, the status is
\* 400 for a ValidationError, 409 for AlreadyExists (create only), 404 for
\* NotFound (update and delete only), 500 for any other failure of the store,
\* 201 for a create and 200 for a list, update or delete that succeeded; an
\* error never gives a 2xx status.
C17_StatusOfOutcome == [](C17_Mapping) /\ [][C17_Answers]_vars

\* A second create of a stored key has been answered 409.
C17_Witness ==
    /\ Answered
    /\ response.status = StatusConflict
    /\ response.outcome.err = ErrAlreadyExists
    /\ ~Absent(response.outcome.userID, response.outcome.assetID)

-----------------------------------------------------------------------------
(* C18.  The asset identifier of the path.                                  *)

\* Empty or nothing but whitespace.
BlankID(assetID) == \A i \in 1..Len(assetID) : assetID[i] \in Whitespace

\* The request given last passes the four checks.
PassedChecks ==
    AuthOK /\ response'.status # StatusTooManyRequests /\ AcceptOK /\ ContentTypeOK

\* C18: a PATCH or DELETE that passed the four checks with an empty or
\* all-whitespace asset identifier in its path is answered 400 by the route,
\* no handler is called and the store, the heap and the handlers in flight are
\* as before; a PATCH is answered so whether or not its body decodes.
C18_BlankAssetIDRejected ==
    [][(Served /\ PassedChecks
            /\ request'.method \in {MethodPatch, MethodDelete}
            /\ BlankID(request'.assetID))
        => /\ response'.status = StatusBadRequest
           /\ response'.by = "route"
           /\ ~HandlerCalled
           /\ StoreUntouched]_vars

\* A PATCH with a blank identifier and a body that does not decode has been
\* answered 400 while a favourite is stored.
C18_Witness ==
    /\ response.status = StatusBadRequest
    /\ response.by = "route"
    /\ request.method = MethodPatch
    /\ request.assetID = Blank
    /\ ~request.body.decodes
    /\ \E u \in dom.users : ~Absent(u, c1)

-----------------------------------------------------------------------------
(* C19.  The Content-Type header.                                           *)

\* The media type occurs somewhere in the header value.
Names(header, mediaType) ==
    \E i \in 1..Len(header) :
        /\ i + Len(mediaType) - 1 <= Len(header)
        /\ \A j \in 1..Len(mediaType) : header[i + j - 1] = mediaType[j]

\* The request given last is authenticated, admitted by the limiter and
\* acceptable.
Acceptable == AuthOK /\ response'.status # StatusTooManyRequests /\ AcceptOK

BodyBearing == request'.method \in {MethodPost, MethodPatch}

\* C19: an authenticated, admitted, acceptable POST or PATCH whose
\* Content-Type is missing or does not name application/json is answered 415
\* by the middleware, before any handler is called and with the store left
\* alone, and one whose Content-Type names it is not answered 415; a GET or a
\* DELETE is never answered 415, whatever its Content-Type, and an acceptable
\* one always reaches its route; a DELETE without Content-Type of a key that
\* is absent is answered 404 unless the store itself fails.
C19_ContentTypeOnlyWithBody ==
    [][Served =>
        LET status == response'.status
            json == Names(request'.contentType, ApplicationJSON)
        IN  /\ (Acceptable /\ BodyBearing /\ ~json)
                  => /\ status = StatusUnsupportedMediaType
                     /\ response'.by = "contentTypeJSONMiddleware"
                     /\ ~HandlerCalled
                     /\ StoreUntouched
            /\ (BodyBearing /\ json) => status # StatusUnsupportedMediaType
            /\ ~BodyBearing => status # StatusUnsupportedMediaType
            /\ (Acceptable /\ ~BodyBearing) => Routed
            /\ (Acceptable /\ request'.method = MethodDelete
                    /\ request'.contentType = <<>>
                    /\ ~BlankID(request'.assetID)
                    /\ Absent(User, request'.assetID))
                  => \/ status = StatusNotFound
                     \/ status = StatusInternalServerError /\ resp'.err = ErrStore]_vars

\* The second request served, a DELETE without Content-Type of an absent
\* key, has been answered 404.
C19_Witness ==
    /\ response.status = StatusNotFound
    /\ response.by = "handler"
    /\ request.method = MethodDelete
    /\ request.contentType = <<>>
    /\ served = 2

-----------------------------------------------------------------------------
(* C20.  The Accept header.                                                 *)

\* The request given last is authenticated and admitted by the limiter.
Admitted == AuthOK /\ response'.status # StatusTooManyRequests

-----------------------------------------------------------------------------
(* C21.  The timestamps of a new record.                                    *)

\* C21: the record a successful create has just stored has created_at equal
\* to updated_at.
C21_CreatedAtEqualsUpdatedAt ==
    [][\A f \in BagToSet(frames) :
          (AddFavourite_AddFavouriteInDB(f) /\ resp'.err = Nil) =>
             \A r \in Lookup(f.userID, f.assetID)' : r.CreatedAt = r.UpdatedAt]_vars

-----------------------------------------------------------------------------
(* C22.  The empty description.                                             *)

\* C22: a create with a valid asset is not refused for its description, so it
\* goes on to the store whatever the description; a create with an empty
\* description whose insert finds the key absent succeeds and the record then
\* stored has an empty description; an update-description with an empty
\* description is refused with a ValidationError.
C22_EmptyDescriptionOnCreate ==
    [][/\ \A u \in dom.users, x \in dom.assets :
             (AddFavourite(u, x, DescEmpty) /\ validateAsset(x) = Nil) => ~ReturnsAtOnce
       /\ \A f \in BagToSet(frames) :
             (/\ AddFavourite_AddFavouriteInDB(f)
              /\ f.description = DescEmpty
              /\ Absent(f.userID, f.assetID))
                => /\ resp'.err = Nil
                   /\ Lookup(f.userID, f.assetID)' # {}
                   /\ \A r \in Lookup(f.userID, f.assetID)' : r.Description = DescEmpty
       /\ \A u \in dom.users, a \in dom.assetIDs :
             UpdateDescription(u, a, DescEmpty) =>
                /\ ReturnsAtOnce
                /\ IsValidationError(resp'.err)]_vars

\* A create with an empty description has succeeded and its record is stored.
C22_Witness ==
    /\ resp.op = "AddFavourite"
    /\ resp.err = Nil
    /\ resp.description = DescEmpty
    /\ \E r \in Lookup(resp.userID, resp.assetID) : r.Description = DescEmpty

-----------------------------------------------------------------------------
(* C23.  The length of a stored description.                                *)

\* C23: every stored record has a description of at most 255 characters.
C23_StoredDescriptionBounded ==
    \A k \in Keys : \A r \in Lookup(k[1], k[2]) : Len(r.Description) <= maxStringLength

-----------------------------------------------------------------------------
(* C24.  The round trip of an asset through the data column.                *)

\* The variant of a reconstructed asset.
Variant(asset) == asset.type

-----------------------------------------------------------------------------
(* C25.  Every violation is reported.                                       *)

\* The text fields a chart or an insight must have.
RequiredFields(asset) ==
    IF asset.type = "chart" THEN {"id", "title", "x_axis_title", "y_axis_title"}
    ELSE {"id", "text"}

\* The rules an asset violates: a field that is empty once trimmed, a field
\* longer than 255.
Violated(asset) ==
    {<<f, "is required">> : f \in {g \in RequiredFields(asset) : BlankID(asset[g])}}
    \cup {<<f, "exceeds maximum length">> :
             f \in {g \in RequiredFields(asset) : Len(asset[g]) > 255}}

\* C25: for every chart and insight the result of validation is nil if and
\* only if no rule is violated, and otherwise a ValidationError whose list
\* has exactly one entry for each violated rule (each required field that is
\* blank, each field that is too long) and no other, so that its length is
\* the number of violated rules; a chart whose four fields are empty gets
\* four entries, for id, title, x_axis_title and y_axis_title.
C25_AllViolationsReported ==
    (call.fn = "validateAsset" /\ call.arg.type \in {"chart", "insight"}) =>
        LET rules == Violated(call.arg)
            errs == call.err.Errors
        IN  /\ call.err = Nil <=> rules = {}
            /\ rules # {} => IsValidationError(call.err)
            /\ Len(errs) = Cardinality(rules)
            /\ {errs[i] : i \in 1..Len(errs)} = rules
            /\ call.arg = Chart(<<>>, <<>>, <<>>, <<>>, {}) =>
                  /\ Len(errs) = 4
                  /\ {errs[i][1] : i \in 1..4} = {"id", "title", "x_axis_title", "y_axis_title"}

\* The chart with four empty fields has been validated.
C25_Witness ==
    /\ call.fn = "validateAsset"
    /\ call.arg = Chart(<<>>, <<>>, <<>>, <<>>, {})
    /\ IsValidationError(call.err)
    /\ Len(call.err.Errors) = 4

-----------------------------------------------------------------------------
(* C26.  One client from an empty store to an empty store.                  *)

\* The client of the scenario.
Client == CHOOSE u \in dom.users : TRUE

\* No call of the store has failed on the connection so far.
NoStoreFailure == \A o \in BagToSet(hist) : o.err # ErrStore

\* The request sent last has been answered.
Replied == served >= 1 /\ response.status # 0

C26_Responses ==
    (Replied /\ NoStoreFailure) =>
        CASE served = 1 ->
                response.status = StatusCreated /\ ~Absent(Client, c1)
          [] served = 2 ->
                response.status = StatusConflict /\ ~Absent(Client, c1)
          [] served = 3 ->
                /\ response.status = StatusOK
                /\ Len(response.outcome.list) = 1
                /\ response.outcome.list[1].ID = c1
                /\ response.outcome.list[1].Data = ChartC1
          [] served = 4 ->
                response.status = StatusBadRequest /\ ~Absent(Client, c1)
          [] served = 5 ->
                response.status = StatusOK /\ Absent(Client, c1)
          [] OTHER ->
                response.status = StatusOK /\ response.outcome.list = <<>>

\* The update with the empty description changes no record.
C26_PatchChangesNothing ==
    (served = 3 /\ served' = 4) => Stored(heap)' = Stored(heap) /\ StoreView' = StoreView

-----------------------------------------------------------------------------
(* C27.  The update validates the description before it looks the key up.  *)

C27_Step ==
    \A u \in dom.users, a \in dom.assetIDs, d \in dom.updateDescs :
        (UpdateDescription(u, a, d) /\ validateDescription(d) # Nil) =>
            /\ ReturnsAtOnce
            /\ resp'.err = validateDescription(d)
            /\ IsValidationError(resp'.err)
            /\ resp'.err # ErrNotFound
            /\ heap' = heap
            /\ favourites' = favourites
            /\ rows' = rows

\* C27: an update whose description is empty, whitespace-only or longer than
\* maxStringLength returns a ValidationError at once, whether or not the
\* composite key is stored (never NotFound); the invocation reads no record
\* from the store (no object is obtained from it) and writes none.
C27_ValidationBeforeLookup == [][C27_Step]_vars

\* The first invocation of the behaviour was an update of a key that has
\* never been stored, with an invalid description, and returned a
\* ValidationError.
C27_Witness ==
    /\ started = 1
    /\ resp.op = "UpdateDescription"
    /\ validateDescription(resp.description) # Nil
    /\ IsValidationError(resp.err)
    /\ Absent(resp.userID, resp.assetID)

-----------------------------------------------------------------------------
(* C28.  A stored record and its payload name the same asset and variant.   *)

\* The fields of the document json.Marshal writes for a variant.
DocFields(assetType) == DOMAIN Marshal(unmarshalAssetData(assetType, <<>>).asset)

\* A FavouriteAsset object whose ID and AssetType are those of its Data.
ObjectConsistent(fav) ==
    /\ fav.ID = GetID(fav.Data)
    /\ fav.AssetType = GetType(fav.Data)

\* A row whose id is the id of the document in its data column and whose
\* asset_type is the variant that document was marshalled from.
RowConsistent(row) ==
    /\ row.id = StrField(row.data, "id")
    /\ row.asset_type \in AssetTypes
    /\ DOMAIN row.data = DocFields(row.asset_type)

\* C28: in every reachable state every stored record is consistent with its
\* payload: its asset_id is the identifier of its asset_payload and its
\* asset_type is the variant of its asset_payload, after any interleaving of
\* create, update-description and delete on the key, an update whose read
\* precedes a delete and a re-create of the key with another variant
\* included.
C28_PayloadConsistent ==
    IF backend = "mock"
    THEN \A r \in MapRefs(favourites) : ObjectConsistent(heap[r])
    ELSE \A row \in rows : RowConsistent(row)

-----------------------------------------------------------------------------
(* C29.  What a list sees of a record while an update of it is running.     *)

\* The description and updated_at of rec are those a create or an update that
\* has returned without error wrote.
Committed(rec) ==
    \E o \in BagToSet(hist) :
        /\ o.op \in {"AddFavourite", "UpdateDescription"}
        /\ o.err = Nil
        /\ o.userID = rec.UserID
        /\ o.assetID = rec.ID
        /\ o.description = rec.Description
        /\ o.t2 = rec.UpdatedAt

\* rec is the whole of what an update that is about to call the store
\* writes: its description and its updated_at.
AboutToCommit(rec) ==
    \E f \in InFrames("UpdateDescription", "UpdateFavouriteInDB") :
        /\ heap[f.favourite].UserID = rec.UserID
        /\ heap[f.favourite].ID = rec.ID
        /\ heap[f.favourite].Description = rec.Description
        /\ heap[f.favourite].UpdatedAt = rec.UpdatedAt

C29_Step ==
    \A u \in dom.users :
        GetUserFavourites(u) =>
            \A i \in 1..Len(resp'.list) :
                Committed(resp'.list[i]) \/ AboutToCommit(resp'.list[i])

\* C29: update-description is atomic for concurrent readers: every record a
\* list returns while updates of it are running has the description and the
\* updated_at of one write, either those the record had before the update or
\* those the update writes, never the new description with the old
\* updated_at.
C29_AtomicUpdate == [][C29_Step]_vars

-----------------------------------------------------------------------------
(* C30.  Which requests the limiter counts.                                 *)

\* The request was refused by the gate.
RefusedByGate == response'.status = StatusUnauthorized /\ response'.by = "JWTMiddleware"

\* The request got past the gate and the limiter: a middleware behind them, a
\* route or a handler answers it.
PastLimiter == response'.by \notin {"JWTMiddleware", "httprate.Limit"}

\* The limiter has counted the request of this step for its user and for no
\* other.
Counted ==
    \E now \in clock..clock' :
        limiter' = [Found(now) EXCEPT !.latest[User] = @ + 1]

\* The statuses of a request refused behind the limiter.
RefusedBehindLimiter ==
    {StatusNotAcceptable, StatusUnsupportedMediaType, StatusBadRequest,
     StatusNotFound, StatusConflict}

C30_Step ==
    /\ Served =>
          /\ RefusedByGate => limiter' = limiter
          /\ (Limited(rateCfg) /\ PastLimiter) => Counted
          /\ (Limited(rateCfg) /\ response'.status \in RefusedBehindLimiter) => Counted
    /\ ~Served => limiter' = limiter
    /\ rateCfg.Requests <= 0 =>
          /\ response'.status # StatusTooManyRequests
          /\ limiter' = limiter

\* C30: the limiter counts in the order of the chain: a request the gate
\* refuses with 401 changes no count of any user; a request of an
\* authenticated user that gets past the limiter is counted for its user when
\* it arrives, whether it is then answered 406, 415, 400, 404 or 409 or
\* succeeds, and no later step of its handler changes a count; with no limit
\* configured (Requests <= 0) no request is answered 429.
C30_CountingOrder == [][C30_Step]_vars

\* With a limit configured, a create has been answered 409 after it was
\* counted for its user.
C30_Witness ==
    /\ Limited(rateCfg)
    /\ response.status = StatusConflict
    /\ response.outcome.userID = request.authorization.token.sub.value
    /\ limiter.latest[response.outcome.userID] >= 1
====
